---- MODULE Spec2Model ----
(***************************************************************************)
(* CodeIntel, ECMAScript support: the CITDL resolver of                    *)
(* codeintel2/tree_ecma.py (ECMAScriptTreeEvaluator), the request          *)
(* dispatch of codeintel2/lang_ecma.py (async_eval_at_trg) and the lazy    *)
(* directory scan of codeintel2/database/langlibbase.py.                   *)
(*                                                                         *)
(* Strings are sequences of atoms.  An atom is one character ("a", ".",    *)
(* "(", ",", "/", "1") or one identifier fragment the code looks for as a  *)
(* whole ("__arg", "default", "exports", "__builtins__", "require").       *)
(***************************************************************************)
EXTENDS Integers, Sequences, FiniteSets, TLC

VARIABLES
    world,      \* the symbol trees, the files and the buffer of the request
    query,      \* [expr, path, defn]: expression, start scope, declaration-only
    phase,      \* position of the resolver scenario
    out,        \* results of the resolutions of the scenario
    ctl,        \* controller of one request: [calls, evalr, raised, aborted]
    trg,        \* trigger handed to async_eval_at_trg
    scan        \* directory-scan state of one library shared by threads

vars == <<world, query, phase, out, ctl, trg, scan>>

-----------------------------------------------------------------------------
(* Strings                                                                 *)

Str(a) == <<a>>
NoStr == <<>>

\* F of the value of v, with v evaluated once.
Once(v, F(_)) == CHOOSE r \in {F(x) : x \in {v}} : TRUE

IsSpecial(ch) == ch \in {".", "(", ")"}

StartsWith(s, p) == Len(s) >= Len(p) /\ SubSeq(s, 1, Len(p)) = p

Drop(s, n) == IF n >= Len(s) THEN <<>> ELSE SubSeq(s, n + 1, Len(s))

Take(s, n) == IF n >= Len(s) THEN s ELSE SubSeq(s, 1, n)

RECURSIVE JoinWith(_, _)
JoinWith(parts, sep) ==
    IF parts = <<>> THEN <<>>
    ELSE IF Len(parts) = 1 THEN parts[1]
    ELSE parts[1] \o sep \o JoinWith(Tail(parts), sep)

\* str.split(sep) for a one-atom separator: always at least one part.
RECURSIVE SplitAcc(_, _, _, _)
SplitAcc(s, sep, cur, acc) ==
    IF s = <<>> THEN Append(acc, cur)
    ELSE IF s[1] = sep THEN SplitAcc(Tail(s), sep, <<>>, Append(acc, cur))
    ELSE SplitAcc(Tail(s), sep, Append(cur, s[1]), acc)

Split(s, sep) == SplitAcc(s, sep, <<>>, <<>>)

\* str.lstrip("./"): the number of leading "." and "/" atoms.
RECURSIVE LeadDots(_)
LeadDots(s) ==
    IF s # <<>> /\ s[1] \in {".", "/"} THEN 1 + LeadDots(Tail(s)) ELSE 0

-----------------------------------------------------------------------------
(* Expression tokenizer                                                    *)

\* The end of the run of non-special atoms that starts at position i.
RECURSIVE WordEnd(_, _)
WordEnd(s, i) ==
    IF i > Len(s) \/ IsSpecial(s[i]) THEN i - 1 ELSE WordEnd(s, i + 1)

\* tokenize_re.finditer: one match (sep, word) at the start of the string,
\* with an empty sep, then one per special atom.
RECURSIVE MatchesFrom(_, _)
MatchesFrom(s, i) ==
    IF i > Len(s) THEN <<>>
    ELSE LET e == WordEnd(s, i + 1)
         IN  <<[sep |-> s[i], word |-> SubSeq(s, i + 1, e)]>>
                 \o MatchesFrom(s, e + 1)

tokenize_re(s) ==
    LET e == WordEnd(s, 1)
    IN  <<[sep |-> "", word |-> SubSeq(s, 1, e)]>> \o MatchesFrom(s, e + 1)

\* The loop without its `if word` tests: an empty word is a token too.
RECURSIVE TokLoopKeepEmpty(_, _, _, _)
TokLoopKeepEmpty(ms, level, params, acc) ==
    IF ms = <<>> THEN acc
    ELSE LET sep == ms[1].sep
             word == ms[1].word
             glue == (IF sep = "" THEN <<>> ELSE <<sep>>) \o word
         IN  IF sep = "("
             THEN TokLoopKeepEmpty(Tail(ms), level + 1, params \o glue, acc)
             ELSE IF sep = ")"
             THEN IF level - 1 = 0
                  THEN TokLoopKeepEmpty(Tail(ms), 0, <<>>,
                                        Append(acc, Append(params, ")"))
                                            \o <<word>>)
                  ELSE TokLoopKeepEmpty(Tail(ms), level - 1, params \o glue,
                                        acc)
             ELSE IF level = 0
             THEN TokLoopKeepEmpty(Tail(ms), level, params, acc \o <<word>>)
             ELSE TokLoopKeepEmpty(Tail(ms), level, params \o glue, acc)

RECURSIVE TokLoop(_, _, _, _)
TokLoop(ms, level, params, acc) ==
    IF ms = <<>> THEN acc
    ELSE LET sep == ms[1].sep
             word == ms[1].word
             glue == (IF sep = "" THEN <<>> ELSE <<sep>>) \o word
         IN  IF sep = "("
             THEN TokLoop(Tail(ms), level + 1, params \o glue, acc)
             ELSE IF sep = ")"
             THEN IF level - 1 = 0
                  THEN TokLoop(Tail(ms), 0, <<>>,
                               Append(acc, Append(params, ")"))
                                   \o (IF word # <<>> THEN <<word>> ELSE <<>>))
                  ELSE TokLoop(Tail(ms), level - 1, params \o glue, acc)
             ELSE IF level = 0
             THEN TokLoop(Tail(ms), level, params,
                          acc \o (IF word # <<>> THEN <<word>> ELSE <<>>))
             ELSE TokLoop(Tail(ms), level, params \o glue, acc)

\* A tokenizer that splits at every dot, inside parentheses as well.
NonEmptyPart(p) == p # <<>>

_tokenize_at_dots(citdl) == SelectSeq(Split(citdl, "."), NonEmptyPart)

_tokenize_citdl_expr(citdl) == TokLoop(tokenize_re(citdl), 0, <<>>, <<>>)

\* A join that puts nothing between the tokens.
_join_bare(tokens) == JoinWith(tokens, <<>>)

_join_citdl_expr(tokens) == JoinWith(tokens, <<".">>)

-----------------------------------------------------------------------------
(* Symbol trees.  A world w holds                                          *)
(*   w.el      the elements, by identity: tag, ilk, name, parent (0 for a  *)
(*             blob), citdl, attributes, refs (classrefs, interfacerefs or *)
(*             objectrefs, by ilk), returns, module/symbol/alias (import), *)
(*             src (blob: path of its file), reqlib                        *)
(*   w.files   what the database holds: [dir, mod, blob]                   *)
(*   w.inits   the package directories (those with an __init__.py)         *)
(*   w.buf     the blob of the buffer, w.bufpath its path, w.buflibs its   *)
(*             libraries (the last one is the stdlib)                      *)

\* An element with every attribute absent, and the elements a scan emits.
Elem0 ==
    [tag |-> "scope", ilk |-> "", name |-> <<>>, parent |-> 0, citdl |-> <<>>,
     attrs |-> {}, refs |-> <<>>, returns |-> <<>>, module |-> <<>>,
     symbol |-> <<>>, alias |-> <<>>, src |-> <<>>, reqlib |-> <<>>,
     signature |-> <<>>, doc |-> <<>>]

Blob(name, src) == [Elem0 EXCEPT !.ilk = "blob", !.name = name, !.src = src]

Scope(ilk, name, parent) ==
    [Elem0 EXCEPT !.ilk = ilk, !.name = name, !.parent = parent]

Variable(name, parent, citdl) ==
    [Elem0 EXCEPT !.tag = "variable", !.name = name, !.parent = parent,
                  !.citdl = citdl]

Import(parent, module, symbol, alias) ==
    [Elem0 EXCEPT !.tag = "import", !.parent = parent, !.module = module,
                  !.symbol = symbol, !.alias = alias]

NoElem == [id |-> 0, inst |-> FALSE]
NoSref == [blob |-> 0, path |-> <<>>]
NoHit == [elem |-> NoElem, sref |-> NoSref]

Raw(id) == [id |-> id, inst |-> FALSE]
ClassInstance(elem) == [id |-> elem.id, inst |-> TRUE]
Hit(elem, sref) == [elem |-> elem, sref |-> sref]
Sref(blob, path) == [blob |-> blob, path |-> path]

Tag(w, e) == w.el[e.id].tag
Ilk(w, e) == IF e.inst THEN "instance" ELSE w.el[e.id].ilk
Name(w, e) == w.el[e.id].name
Citdl(w, e) == w.el[e.id].citdl
Attributes(w, e) == w.el[e.id].attrs

\* `for child in elem`: the children in document order.
RECURSIVE ChildrenFrom(_, _, _)
ChildrenFrom(w, id, i) ==
    IF i > Len(w.el) THEN <<>>
    ELSE (IF w.el[i].parent = id THEN <<i>> ELSE <<>>)
             \o ChildrenFrom(w, id, i + 1)

Children(w, id) == ChildrenFrom(w, id, 1)

RECURSIVE SelectImports(_, _)
SelectImports(w, ids) ==
    IF ids = <<>> THEN <<>>
    ELSE (IF w.el[ids[1]].tag = "import" THEN <<ids[1]>> ELSE <<>>)
             \o SelectImports(w, Tail(ids))

Imports(w, id) == SelectImports(w, Children(w, id))

\* elem.names: the named children (scopes and variables) by name.
NamesOf(w, id) ==
    {w.el[c].name : c \in {c \in 1..Len(w.el) :
                              w.el[c].parent = id /\ w.el[c].tag # "import"}}

InNames(w, id, name) == name \in NamesOf(w, id)

NamesGet(w, id, name) ==
    CHOOSE c \in 1..Len(w.el) :
        w.el[c].parent = id /\ w.el[c].tag # "import" /\ w.el[c].name = name

\* elem.get(refs, "").split() for the refs attribute that goes with an ilk.
RefsAttr(w, e, attr) ==
    LET ilk == w.el[e.id].ilk
    IN  IF \/ attr = "classrefs" /\ ilk = "class"
           \/ attr = "interfacerefs" /\ ilk = "interface"
           \/ attr = "objectrefs" /\ ilk = "object"
        THEN w.el[e.id].refs ELSE <<>>

\* os.path.dirname on a path held as its sequence of components.
dirname(path) == IF path = <<>> THEN <<>> ELSE SubSeq(path, 1, Len(path) - 1)

\* _elem_from_scoperef: walks names along the path; a missing name is a
\* KeyError, reported as 0.
RECURSIVE ElemWalk(_, _, _)
ElemWalk(w, id, path) ==
    IF path = <<>> THEN id
    ELSE IF InNames(w, id, path[1])
         THEN ElemWalk(w, NamesGet(w, id, path[1]), Tail(path))
         ELSE 0

_elem_from_scoperef(w, sref) == ElemWalk(w, sref.blob, sref.path)

-----------------------------------------------------------------------------
(* Libraries                                                               *)

Lib(name, dir) == [name |-> name, dirs |-> <<dir>>]

\* mgr.db.get_lang_lib(lang, name, [dir])
get_lang_lib(name, dir) == Lib(name, dir)

has_blob(w, lib, mod) ==
    \E f \in w.files : f.mod = mod /\ \E i \in DOMAIN lib.dirs : lib.dirs[i] = f.dir

get_blob(w, lib, mod) ==
    (CHOOSE f \in w.files :
        f.mod = mod /\ \E i \in DOMAIN lib.dirs : lib.dirs[i] = f.dir).blob

\* ECMAScriptImportLibGenerator: the given libs, then at most one library
\* for the nearest of the 5 ancestor directories of the buffer that holds
\* the package named by the first part of the import.
ParentDirsToProbe == 5

RECURSIVE ProbeParents(_, _, _, _)
ProbeParents(w, lookuppath, import_name, parent_dirs_left) ==
    IF parent_dirs_left > 0
    THEN IF Append(lookuppath, import_name) \in w.inits
         THEN <<get_lang_lib("parentdirlib", lookuppath)>>
         ELSE ProbeParents(w, dirname(lookuppath), import_name,
                           parent_dirs_left - 1)
    ELSE <<>>

ECMAScriptImportLibGenerator(bufpath, imp_prefix, libs) ==
    [gen |-> TRUE, libs |-> libs, imp_prefix |-> imp_prefix,
     bufpath |-> bufpath]

\* What iterating libs to its end yields.
LibsOf(w, libs) ==
    IF libs.gen
    THEN libs.libs \o ProbeParents(w, dirname(libs.bufpath),
                                   Split(libs.imp_prefix[1], "/")[1],
                                   ParentDirsToProbe)
    ELSE libs.libs

PlainLibs(seq) == [gen |-> FALSE, libs |-> seq]

\* _add_parentdirlib
_add_parentdirlib(w, libs, tokens) ==
    ECMAScriptImportLibGenerator(w.bufpath, tokens, libs.libs)

\* import_handler.import_blob_name(module_name, libs, ctlr): the blob of the
\* first library that has the module, 0 (CodeIntelError) when none has it.
RECURSIVE FirstLibWith(_, _, _)
FirstLibWith(w, seq, mod) ==
    IF seq = <<>> THEN 0
    ELSE IF has_blob(w, seq[1], mod) THEN get_blob(w, seq[1], mod)
    ELSE FirstLibWith(w, Tail(seq), mod)

import_blob_name(w, mod, libs) == FirstLibWith(w, LibsOf(w, libs), mod)

-----------------------------------------------------------------------------
(* The evaluator.  One request owns one evaluator; st is its mutable state: *)
(*   st.cnt    _eval_count_from_expr, a set of [expr, n]                    *)
(*   st.libs   self.libs (None, held as <<>>, until first read)             *)
(*   st.bib    self._built_in_blob (0 for None), st.loads the get_blob("*") *)
(*             calls made                                                   *)
(* A configuration c is the call stack of the resolver (c.stk, one frame    *)
(* per active call, with the label c.stk[i].pc it continues at), the value  *)
(* being returned (c.ret), the exception being raised (c.exc, "" for none)  *)
(* and st.                                                                  *)

_SENTINEL_MAX_EXPR_COUNT == 100

NewSt == [cnt |-> {}, libs |-> <<>>, bib |-> 0, loads |-> 0]

EvalCount(st, expr) ==
    IF \E r \in st.cnt : r.expr = expr
    THEN (CHOOSE r \in st.cnt : r.expr = expr).n
    ELSE 0

SetCount(st, expr, n) ==
    [st EXCEPT !.cnt = {r \in @ : r.expr # expr} \cup {[expr |-> expr, n |-> n]}]

\* TreeEvaluator._check_infinite_recursion(expr): TRUE when it raises.
CountExceeded(st, expr) == EvalCount(st, expr) + 1 >= _SENTINEL_MAX_EXPR_COUNT

_check_infinite_recursion(st, expr) == SetCount(st, expr, EvalCount(st, expr) + 1)

\* Which exceptions `except CodeIntelError` catches.
IsCodeIntelError(exc) == exc = "CodeIntelError"

\* The libs property: self._libs, read from self.buf.libs the first time.
libs(w, st) == IF st.libs = <<>> THEN w.buflibs ELSE st.libs

\* The stdlib property and the built_in_blob property.
stdlib(w) == w.buflibs[Len(w.buflibs)]

built_in_blob(w, st) ==
    IF st.bib = 0
    THEN [st EXCEPT !.bib = get_blob(w, stdlib(w), Str("*")), !.loads = @ + 1]
    ELSE st

\* parent_scoperef_from_scoperef: [ok, sref, st] with sref.blob = 0 for None
\* and ok = FALSE for the KeyError of a path that names no element.
parent_scoperef_from_scoperef(w, st, sref) ==
    IF sref.path # <<>>
    THEN LET parent_lpath == dirname(sref.path)
             elem == _elem_from_scoperef(w, Sref(sref.blob, parent_lpath))
         IN  IF parent_lpath = <<>>
             THEN [ok |-> TRUE, sref |-> Sref(sref.blob, <<>>), st |-> st]
             ELSE IF elem = 0
             THEN [ok |-> FALSE, sref |-> NoSref, st |-> st]
             ELSE IF w.el[elem].ilk \in {"class", "instance"}
             THEN [ok |-> TRUE, sref |-> Sref(sref.blob, dirname(parent_lpath)),
                   st |-> st]
             ELSE [ok |-> TRUE, sref |-> Sref(sref.blob, parent_lpath), st |-> st]
    ELSE IF st.bib # 0 /\ sref.blob = st.bib
    THEN [ok |-> TRUE, sref |-> NoSref, st |-> st]
    ELSE LET st2 == built_in_blob(w, st)
         IN  [ok |-> TRUE, sref |-> Sref(st2.bib, <<>>), st |-> st2]

\* _set_reldirlib_from_blob
_set_reldirlib_from_blob(w, st, blob) ==
    IF blob # 0 /\ w.el[blob].src # <<>> /\ w.el[blob].ilk = "blob"
    THEN LET reldirlib == get_lang_lib("reldirlib", dirname(w.el[blob].src))
             cur == libs(w, st)
         IN  [st EXCEPT !.libs = IF cur[1].name = "reldirlib"
                                 THEN <<reldirlib>> \o Tail(cur)
                                 ELSE <<reldirlib>> \o cur]
    ELSE st

(* Frames *)

Frame0 ==
    [fn |-> "", pc |-> "start", tokens |-> <<>>, expr |-> <<>>,
     elem |-> NoElem, sref |-> NoSref, variable |-> 0, defn |-> FALSE,
     args |-> <<>>, args_sref |-> NoSref, hit |-> NoHit, rest |-> <<>>,
     citdl |-> <<>>, citdl_sref |-> NoSref,
     orig_libs |-> <<>>, possible |-> <<>>, allow |-> TRUE,
     module_tokens |-> <<>>, blob |-> 0, exports |-> NoElem,
     symbol |-> <<>>, hidden |-> {}, members |-> {}, imps |-> <<>>,
     child |-> 0, kind |-> "",
     refs |-> <<>>, fake |-> [on |-> FALSE, module |-> <<>>, symbol |-> <<>>]]

CitdlFrame(expr, sref, variable, defn) ==
    [Frame0 EXCEPT !.fn = "_hit_from_citdl", !.expr = expr, !.sref = sref,
                   !.variable = variable, !.defn = defn]

TokensFrame(tokens, expr, sref, variable, defn) ==
    [Frame0 EXCEPT !.fn = "_hit_from_tokens", !.tokens = tokens, !.expr = expr,
                   !.sref = sref, !.variable = variable, !.defn = defn]

FirstPartFrame(tokens, sref, variable, defn) ==
    [Frame0 EXCEPT !.fn = "_hit_from_first_part", !.tokens = tokens,
                   !.sref = sref, !.variable = variable, !.defn = defn]

RequireFrame(tokens, sref, variable, defn) ==
    [Frame0 EXCEPT !.fn = "_hit_from_require", !.tokens = tokens,
                   !.sref = sref, !.variable = variable, !.defn = defn]

ImportsFrame(tokens, elem, defn) ==
    [Frame0 EXCEPT !.fn = "_hit_from_elem_imports", !.tokens = tokens,
                   !.elem = elem, !.defn = defn]

CallFrame(elem, sref, args, args_sref, defn) ==
    [Frame0 EXCEPT !.fn = "_hit_from_call", !.elem = elem, !.sref = sref,
                   !.args = args, !.args_sref = args_sref, !.defn = defn]

MembersFrame(hit, defn, hidden) ==
    [Frame0 EXCEPT !.fn = "_members_from_hit", !.elem = hit.elem,
                   !.sref = hit.sref, !.defn = defn, !.hidden = hidden]

CtorFrame(elem, sref, defn) ==
    [Frame0 EXCEPT !.fn = "_ctor_hit_from_class", !.elem = elem, !.sref = sref,
                   !.defn = defn]

PropsFrame(expr, sref) ==
    [Frame0 EXCEPT !.fn = "_available_properties", !.expr = expr, !.sref = sref]

EvalFrame(fn, type, expr, sref, quiet) ==
    [Frame0 EXCEPT !.fn = fn, !.kind = type, !.expr = expr, !.sref = sref,
                   !.defn = quiet]

CalltipFrame(hit) ==
    [Frame0 EXCEPT !.fn = "_calltip_from_hit", !.elem = hit.elem,
                   !.sref = hit.sref]

GetattrFrame(tokens, elem, sref, defn) ==
    [Frame0 EXCEPT !.fn = "_hit_from_getattr", !.tokens = tokens,
                   !.elem = elem, !.sref = sref, !.defn = defn]

(* Configurations *)

RetVal(hit, n) == [hit |-> hit, n |-> n, members |-> {}, list |-> <<>>]

Top(c) == c.stk[Len(c.stk)]

Goto(c, f) == [c EXCEPT !.stk[Len(c.stk)] = f]

Push(c, f, callee) == [c EXCEPT !.stk = Append([@ EXCEPT ![Len(@)] = f], callee)]

Return(c, v) ==
    [c EXCEPT !.stk = SubSeq(@, 1, Len(@) - 1), !.ret = v]

\* An exception out of a call the frame f makes at f.pc.
Raise(c, f, exc) == [Goto(c, f) EXCEPT !.exc = exc]

\* A `raise` of the frame f itself, outside its try blocks.
Throw(c, f, exc) == Raise(c, [f EXCEPT !.pc = "raise"], exc)

None == RetVal(NoHit, 0)

WithSt(c, st) == [c EXCEPT !.st = st]

\* _hit_from_variable_type_inference(elem, scoperef, defn_only), called by
\* the frame f, which continues at f.pc.
_hit_from_variable_type_inference(w, c, f, elem, sref, defn) ==
    IF Citdl(w, elem) = <<>>
    THEN Raise(c, f, "CodeIntelError")
    ELSE Push(c, f, CitdlFrame(Citdl(w, elem), sref, elem.id, defn))

\* _hit_from_type_inference(citdl, scoperef, variable, defn_only)
_hit_from_type_inference(c, f, citdl, sref, variable, defn) ==
    Push(c, f, CitdlFrame(citdl, sref, variable, defn))

\* A bool handed over as `variable`: no element is identical to it.
BoolAsVariable == 0 - 1

-----------------------------------------------------------------------------
(* The resolver, one operator per method: the step the frame f on top of   *)
(* the stack of c takes at f.pc, up to its next call, return or raise.     *)

\* _hit_from_citdl without its first statement, the recursion check.
HitFromCitdlUnchecked(w, c, f) ==
    CASE f.pc = "start" ->
           Push(c, [f EXCEPT !.pc = "hit"],
                TokensFrame(_tokenize_citdl_expr(f.expr), f.expr, f.sref,
                            f.variable, f.defn))
      [] f.pc = "hit" -> Return(c, RetVal(c.ret.hit, 0))

\* _hit_from_citdl
_hit_from_citdl(w, c, f) ==
    CASE f.pc = "start" ->
           IF CountExceeded(c.st, f.expr)
           THEN Throw(c, f, "EvalError")
           ELSE Push(WithSt(c, _check_infinite_recursion(c.st, f.expr)),
                     [f EXCEPT !.pc = "hit"],
                     TokensFrame(_tokenize_citdl_expr(f.expr), f.expr, f.sref,
                                 f.variable, f.defn))
      [] f.pc = "hit" -> Return(c, RetVal(c.ret.hit, 0))

NoDefn(w, elem) == "__no_defn__" \in Attributes(w, elem)

\* _hit_from_tokens with a final loop that follows every variable, asked
\* for the declaration alone or not.
TokensInferAlways(w, c, f) ==
    LET elem == f.hit.elem
    IN  IF Tag(w, elem) = "variable"
        THEN _hit_from_variable_type_inference(
                 w, c, [f EXCEPT !.pc = "inferred"], elem, f.hit.sref, f.defn)
        ELSE Return(c, RetVal(f.hit, Len(f.tokens) - Len(f.rest)))

\* _hit_from_tokens with a final loop that, asked for the declaration
\* alone, follows the variables that are not flagged __no_defn__.
TokensInferUnflagged(w, c, f) ==
    LET elem == f.hit.elem
    IN  IF Tag(w, elem) = "variable" /\ (~f.defn \/ ~NoDefn(w, elem))
        THEN _hit_from_variable_type_inference(
                 w, c, [f EXCEPT !.pc = "inferred"], elem, f.hit.sref, f.defn)
        ELSE Return(c, RetVal(f.hit, Len(f.tokens) - Len(f.rest)))

\* _hit_from_tokens: the variable type inferences after the last token.
TokensInfer(w, c, f) ==
    LET elem == f.hit.elem
    IN  IF Tag(w, elem) = "variable" /\ (~f.defn \/ NoDefn(w, elem))
        THEN _hit_from_variable_type_inference(
                 w, c, [f EXCEPT !.pc = "inferred"], elem, f.hit.sref, f.defn)
        ELSE Return(c, RetVal(f.hit, Len(f.tokens) - Len(f.rest)))

\* _hit_from_tokens: the loop over the remaining tokens.
TokensLoop(w, c, f) ==
    IF f.rest # <<>>
    THEN IF f.rest[1][1] = "("
         THEN Push(c, [f EXCEPT !.pc = "called"],
                   CallFrame(f.hit.elem, f.hit.sref, f.rest[1], f.args_sref,
                             f.defn))
         ELSE Push(c, [f EXCEPT !.pc = "getattr"],
                   GetattrFrame(f.rest, f.hit.elem, f.hit.sref, f.defn))
    ELSE TokensInfer(w, c, f)

\* _hit_from_tokens that goes on with the start scope as its guess when the
\* first part is not found.
TokensFirstGuessed(w, c, f) ==
    IF c.ret.hit = NoHit
    THEN TokensLoop(w, c, [f EXCEPT !.hit = Hit(Raw(_elem_from_scoperef(
                                                        w, f.sref)), f.sref),
                                    !.rest = Tail(f.tokens)])
    ELSE TokensLoop(w, c, [f EXCEPT !.hit = c.ret.hit,
                                    !.rest = Drop(f.tokens, c.ret.n)])

\* _hit_from_tokens, lines 498-508: no hit for the first part is an error.
TokensFirst(w, c, f) ==
    IF c.ret.hit = NoHit
    THEN Throw(c, f, "CodeIntelError")
    ELSE TokensLoop(w, c, [f EXCEPT !.hit = c.ret.hit,
                                    !.rest = Drop(f.tokens, c.ret.n)])

_hit_from_tokens(w, c, f) ==
    CASE f.pc = "start" ->
           Push(c, [f EXCEPT !.pc = "first", !.args_sref = f.sref],
                FirstPartFrame(f.tokens, f.sref, f.variable, f.defn))
      [] f.pc = "first" -> TokensFirst(w, c, f)
      [] f.pc = "called" ->
           TokensLoop(w, c, [f EXCEPT !.hit = c.ret.hit, !.rest = Drop(@, 1)])
      [] f.pc = "getattr" ->
           TokensLoop(w, c, [f EXCEPT !.hit = c.ret.hit,
                                      !.rest = Drop(@, c.ret.n)])
      [] f.pc = "inferred" ->
           TokensInfer(w, c, [f EXCEPT !.hit = c.ret.hit])

\* int(s) for a string of digit atoms; -1 stands for the ValueError.
Digits == <<"0", "1", "2", "3", "4", "5", "6", "7", "8", "9">>

DigitVal(a) == (CHOOSE i \in 1..10 : Digits[i] = a) - 1

RECURSIVE IntAcc(_, _)
IntAcc(s, acc) ==
    IF s = <<>> THEN acc
    ELSE IF \E i \in 1..10 : Digits[i] = s[1]
         THEN IntAcc(Tail(s), 10 * acc + DigitVal(s[1]))
         ELSE 0 - 1

int(s) == IF s = <<>> THEN 0 - 1 ELSE IntAcc(s, 0)

\* _hit_from_call with the argument resolved from the scope of the callee.
CallReturnsAtCallee(w, f) ==
    LET citdl == w.el[f.elem.id].returns
        args == Split(SubSeq(f.args, 2, Len(f.args) - 1), ",")
        k == int(Drop(citdl, 1))
        idx == IF k >= 1 /\ k <= Len(args) THEN k
               ELSE IF k = 0 THEN Len(args)
               ELSE 0
    IN  IF StartsWith(citdl, <<"__arg">>) /\ k >= 0 /\ idx > 0
           /\ ~StartsWith(args[idx], <<"__arg">>)
        THEN [citdl |-> args[idx], sref |-> f.sref]
        ELSE [citdl |-> citdl, sref |-> f.sref]

\* _hit_from_call: the citdl and the scope the return type is resolved from.
CallReturns(w, f) ==
    LET citdl == w.el[f.elem.id].returns
        args == Split(SubSeq(f.args, 2, Len(f.args) - 1), ",")
        k == int(Drop(citdl, 1))
        \* args[k - 1] with Python's indexing: 0 for the IndexError
        idx == IF k >= 1 /\ k <= Len(args) THEN k
               ELSE IF k = 0 THEN Len(args)
               ELSE 0
    IN  IF StartsWith(citdl, <<"__arg">>) /\ k >= 0 /\ idx > 0
           /\ ~StartsWith(args[idx], <<"__arg">>)
        THEN [citdl |-> args[idx], sref |-> f.args_sref]
        ELSE [citdl |-> citdl, sref |-> f.sref]

_hit_from_call(w, c, f) ==
    CASE f.pc \in {"start", "resolved"} ->
           LET g == IF f.pc = "resolved"
                    THEN [f EXCEPT !.elem = c.ret.hit.elem,
                                   !.sref = c.ret.hit.sref, !.pc = "start"]
                    ELSE f
               ilk == Ilk(w, g.elem)
           IN  IF Tag(w, g.elem) = "variable"
               THEN _hit_from_variable_type_inference(
                        w, c, [g EXCEPT !.pc = "resolved"], g.elem, g.sref,
                        g.defn)
               ELSE IF ilk = "class"
               THEN Return(c, RetVal(Hit(ClassInstance(g.elem), g.sref), 0))
               ELSE IF ilk = "function" /\ w.el[g.elem.id].returns # <<>>
               THEN LET r == CallReturns(w, g)
                    IN  Push(c, [g EXCEPT !.pc = "tail"],
                             CitdlFrame(r.citdl, r.sref, 0, g.defn))
               ELSE Throw(c, g, "CodeIntelError")
      [] f.pc = "tail" -> Return(c, c.ret)

\* _hit_from_require
_hit_from_require(w, c, f) ==
    CASE f.pc = "start" ->
           IF Len(f.tokens) > 1 /\ f.tokens[2][1] = "(" /\ f.variable # 0
           THEN IF f.variable = BoolAsVariable
                THEN Throw(c, f, "AttributeError")
                ELSE LET requirename == w.el[f.variable].reqlib
                         module_name == Drop(requirename, LeadDots(requirename))
                         more == Len(f.tokens) > 2
                         symbol == IF more THEN f.tokens[3] ELSE <<>>
                         remaining_tokens == Drop(f.tokens, IF more THEN 3 ELSE 2)
                         callee == ImportsFrame(<<module_name>> \o remaining_tokens,
                                                Raw(f.variable), f.defn)
                     IN  IF requirename = <<>>
                         THEN Throw(c, f, "CodeIntelError")
                         ELSE Push(c, [f EXCEPT !.pc = "imports"],
                                   [callee EXCEPT !.fake =
                                       [on |-> TRUE, module |-> requirename,
                                        symbol |-> symbol]])
           ELSE Return(c, None)
      [] f.pc = "imports" ->
           IF c.ret.hit # NoHit
           THEN Return(c, RetVal(c.ret.hit,
                                 c.ret.n + (IF Len(f.tokens) > 2 THEN 2 ELSE 1)))
           ELSE Throw(c, f, "CodeIntelError")

\* _hit_from_first_part: the walk up the scopes from f.elem at f.sref.
FirstPartScope(w, c, f) ==
    LET first_token == f.tokens[1]
        item == NamesGet(w, f.elem.id, first_token)
    IN  IF InNames(w, f.elem.id, first_token) /\ item # f.variable
        THEN Return(c, RetVal(Hit(Raw(item), f.sref), 1))
        ELSE Push(c, [f EXCEPT !.pc = "imports"],
                  ImportsFrame(f.tokens, f.elem, f.defn))

FirstPartEnter(w, c, f) ==
    LET elem == _elem_from_scoperef(w, f.sref)
    IN  IF f.sref = NoSref
        THEN Throw(c, f, "TypeError")
        ELSE IF elem = 0
        THEN Throw(c, f, "KeyError")
        ELSE FirstPartScope(w, c, [f EXCEPT !.elem = Raw(elem),
                                            !.citdl = w.el[elem].citdl,
                                            !.citdl_sref = f.sref])

_hit_from_first_part(w, c, f) ==
    CASE f.pc = "start" ->
           IF f.tokens = <<>>
           THEN Throw(c, f, "IndexError")
           ELSE IF f.tokens[1] = <<"__builtins__">>
           THEN LET st == built_in_blob(w, c.st)
                IN  Return(WithSt(c, st),
                           RetVal(Hit(Raw(st.bib), Sref(st.bib, <<>>)), 1))
           ELSE IF f.tokens[1] = <<"require">>
           THEN Push(c, [f EXCEPT !.pc = "required"],
                     RequireFrame(f.tokens, f.sref, f.variable, f.defn))
           ELSE FirstPartEnter(w, c, f)
      [] f.pc = "required" ->
           IF c.ret.hit # NoHit THEN Return(c, c.ret)
           ELSE FirstPartEnter(w, c, f)
      [] f.pc = "imports" ->
           IF c.ret.hit # NoHit
           THEN Return(c, c.ret)
           ELSE IF f.tokens[1] = Name(w, f.elem) /\ Ilk(w, f.elem) = "blob"
           THEN Return(c, RetVal(Hit(f.elem, f.sref), 1))
           ELSE LET r == parent_scoperef_from_scoperef(w, c.st, f.sref)
                    elem == _elem_from_scoperef(w, r.sref)
                IN  IF ~r.ok
                    THEN Throw(c, f, "KeyError")
                    ELSE IF r.sref = NoSref
                    THEN IF f.citdl # <<>>
                         THEN _hit_from_type_inference(
                                  c, [f EXCEPT !.pc = "fallback"], f.citdl,
                                  f.citdl_sref, 0, f.defn)
                         ELSE Return(c, None)
                    ELSE IF elem = 0
                    THEN Throw(WithSt(c, r.st), f, "KeyError")
                    ELSE FirstPartScope(w, WithSt(c, r.st),
                                        [f EXCEPT !.elem = Raw(elem),
                                                  !.sref = r.sref])
      [] f.pc = "fallback" ->
           Push(c, [f EXCEPT !.pc = "retry"],
                FirstPartFrame(f.tokens, c.ret.hit.sref, 0, f.defn))
      [] f.pc = "retry" ->
           IF c.ret.hit # NoHit THEN Return(c, c.ret) ELSE Return(c, None)
      [] f.pc = "except" -> Return(c, None)

\* os.path.abspath(os.path.join(lookuppath, prefix)) for a prefix made of
\* "." and "/" atoms.
RECURSIVE ApplySegments(_, _)
ApplySegments(path, segs) ==
    IF segs = <<>> THEN path
    ELSE IF Len(segs[1]) <= 1 THEN ApplySegments(path, Tail(segs))
    ELSE IF Len(segs[1]) = 2 THEN ApplySegments(dirname(path), Tail(segs))
    ELSE ApplySegments(Append(path, segs[1]), Tail(segs))

abspath_join(lookuppath, prefix) == ApplySegments(lookuppath, Split(prefix, "/"))

\* The attributes of an <import>, or of the FakeImport of a require().
ImpAttr(w, f, imp) ==
    IF f.fake.on
    THEN [module |-> f.fake.module, symbol |-> f.fake.symbol, alias |-> <<>>]
    ELSE [module |-> w.el[imp].module, symbol |-> w.el[imp].symbol,
          alias |-> w.el[imp].alias]

\* _hit_from_elem_imports, lines 681-699: the names and the libraries one
\* <import> is looked up with.
ImpLookup(w, f, imp) ==
    LET a == ImpAttr(w, f, imp)
        relative == StartsWith(a.module, <<".">>)
        n == LeadDots(a.module)
        _module_name == Drop(a.module, n)
        \* module_name[:-len(_module_name)], which is "" when nothing is left
        prefix == IF _module_name = <<>> THEN <<>> ELSE Take(a.module, n)
        base == IF f.orig_libs[1].name = "reldirlib"
                THEN f.orig_libs[1].dirs[1]
                ELSE dirname(w.bufpath)
    IN  IF relative
        THEN [alias |-> a.alias,
              module |-> IF _module_name = <<>> THEN a.symbol ELSE _module_name,
              symbol |-> IF _module_name = <<>> THEN <<>> ELSE a.symbol,
              allow |-> FALSE,
              libs |-> <<get_lang_lib("curdirlib", abspath_join(base, prefix))>>]
        ELSE [alias |-> a.alias, module |-> a.module, symbol |-> a.symbol,
              allow |-> TRUE, libs |-> f.orig_libs]

\* libs after the optional _add_parentdirlib.
ImpLibs(w, l, module_tokens) ==
    IF l.allow THEN _add_parentdirlib(w, PlainLibs(l.libs), module_tokens)
    ELSE PlainLibs(l.libs)

\* _hit_from_elem_imports, lines 798-814: the partial import match.
PartialMatches(f) ==
    {m \in [i : 1..(Len(f.module_tokens) - 1), j : 1..Len(f.possible)] :
        Take(f.possible[m.j], m.i) = Take(f.tokens, m.i)}

FirstPartial(f) ==
    CHOOSE m \in PartialMatches(f) :
        \A o \in PartialMatches(f) : o.i < m.i \/ (o.i = m.i /\ o.j >= m.j)

ImpAfterLoop(w, c, f) ==
    IF f.possible # <<>> /\ PartialMatches(f) # {}
    THEN LET m == FirstPartial(f)
             l == [allow |-> f.allow, libs |-> f.orig_libs]
             blob == import_blob_name(
                         w, JoinWith(Take(f.possible[m.j], m.i), <<"/">>),
                         ImpLibs(w, l, f.module_tokens))
         IN  IF blob = 0
             THEN Throw(c, f, "CodeIntelError")
             ELSE Return(WithSt(c, _set_reldirlib_from_blob(w, c.st, blob)),
                         RetVal(Hit(Raw(blob), Sref(blob, <<>>)), m.i))
    ELSE Return(c, None)

\* _hit_from_elem_imports, lines 766-778: the symbol was found (f.elem) or
\* was not (f.elem = NoElem).
ImpElem(w, c, f) ==
    IF f.elem # NoElem
    THEN IF Tag(w, f.elem) = "variable" /\ (~f.defn \/ NoDefn(w, f.elem))
         THEN _hit_from_variable_type_inference(
                  w, c, [f EXCEPT !.pc = "el_vti"], f.elem, f.sref, f.defn)
         ELSE Return(c, RetVal(Hit(f.elem, f.sref), 1))
    ELSE Push(c, [f EXCEPT !.pc = "sub"],
              ImportsFrame(f.tokens, Raw(f.blob), f.defn))

\* _hit_from_elem_imports, lines 748-764: the search in the exported items.
ImpExports(w, c, f) ==
    LET names == f.exports.id
    IN  IF InNames(w, names, f.symbol)
        THEN ImpElem(w, c,
                 [f EXCEPT !.sref = Sref(f.sref.blob,
                                         Append(f.sref.path, Name(w, f.exports))),
                           !.elem = Raw(NamesGet(w, names, f.symbol))])
        ELSE IF f.symbol = <<"default">>
        THEN ImpElem(w, c, [f EXCEPT !.elem = f.exports])
        ELSE IF InNames(w, names, <<"default">>)
        THEN Goto(c, [f EXCEPT !.pc = "default",
                               !.exports = Raw(NamesGet(w, names, <<"default">>))])
        ELSE ImpElem(w, c, [f EXCEPT !.elem = NoElem])

\* _hit_from_elem_imports, lines 757-761: `default` holds the symbol.
ImpDefault(w, c, f) ==
    IF Tag(w, f.exports) = "variable"
    THEN _hit_from_variable_type_inference(
             w, c, [f EXCEPT !.pc = "exp_vti"], f.exports, f.sref, f.defn)
    ELSE ImpExports(w, c, [f EXCEPT !.blob = f.sref.blob])

\* _hit_from_elem_imports: the loop over the <import> children f.imps.
RECURSIVE ImpLoop(_, _, _)
ImpLoop(w, c, f) ==
    IF f.imps = <<>> THEN ImpAfterLoop(w, c, f)
    ELSE
    LET l == ImpLookup(w, f, f.imps[1])
        first_token == f.tokens[1]
        g == [f EXCEPT !.imps = Tail(@), !.allow = l.allow]
        module_tokens == Split(l.module, "/")
        blob == import_blob_name(w, l.module, ImpLibs(w, l, module_tokens))
        st == _set_reldirlib_from_blob(w, c.st, blob)
    IN  IF l.symbol = <<"*">>
        THEN IF blob = 0
             THEN ImpLoop(w, c, g)
             ELSE Push(WithSt(c, st), [g EXCEPT !.pc = "wild"],
                       GetattrFrame(f.tokens, Raw(blob), Sref(blob, <<>>),
                                    f.defn))
        ELSE IF \/ l.alias # <<>> /\ l.alias = first_token
                \/ l.alias = <<>> /\ l.symbol = first_token
                \/ l.alias = <<>> /\ l.module = first_token
        THEN IF blob = 0
             THEN ImpLoop(w, c, g)
             ELSE ImpExports(w, WithSt(c, st),
                      [g EXCEPT !.symbol = IF l.symbol = <<>>
                                           THEN <<"default">> ELSE l.symbol,
                                !.blob = blob,
                                !.sref = Sref(blob, <<>>),
                                !.exports = IF InNames(w, blob, <<"exports">>)
                                            THEN Raw(NamesGet(w, blob, <<"exports">>))
                                            ELSE Raw(blob)])
        ELSE IF l.module = <<>>
        THEN Throw(c, f, "TypeError")
        ELSE IF \E i \in 1..Len(l.module) : l.module[i] = "/"
        THEN IF module_tokens = Take(f.tokens, Len(module_tokens))
             THEN IF blob = 0
                  THEN Throw(c, f, "CodeIntelError")
                  ELSE Return(WithSt(c, st),
                              RetVal(Hit(Raw(blob), Sref(blob, <<>>)),
                                     Len(module_tokens)))
             ELSE IF module_tokens[1] = first_token
             THEN ImpLoop(w, c, [g EXCEPT !.module_tokens = module_tokens,
                                          !.possible = Append(@, module_tokens)])
             ELSE ImpLoop(w, c, [g EXCEPT !.module_tokens = module_tokens])
        ELSE ImpLoop(w, c, g)

_hit_from_elem_imports(w, c, f) ==
    CASE f.pc = "start" ->
           IF CountExceeded(c.st, f.tokens[1])
           THEN Throw(c, f, "EvalError")
           ELSE ImpLoop(w, WithSt(c, _check_infinite_recursion(c.st, f.tokens[1])),
                        [f EXCEPT !.orig_libs = libs(w, c.st),
                                  !.imps = IF f.fake.on THEN <<0>>
                                           ELSE Imports(w, f.elem.id)])
      [] f.pc \in {"wild", "sub"} ->
           IF c.ret.hit # NoHit THEN Return(c, c.ret) ELSE ImpLoop(w, c, f)
      [] f.pc = "except" -> ImpLoop(w, c, f)
      [] f.pc = "default" -> ImpDefault(w, c, f)
      [] f.pc = "exp_vti" ->
           ImpDefault(w, c, [f EXCEPT !.exports = c.ret.hit.elem,
                                      !.sref = c.ret.hit.sref])
      [] f.pc = "el_vti" ->
           ImpElem(w, c, [f EXCEPT !.elem = c.ret.hit.elem,
                                   !.sref = c.ret.hit.sref])

\* _hit_from_getattr on a variable: only the first token goes with the citdl.
GetattrTokensFirst(w, f) ==
    _tokenize_citdl_expr(Citdl(w, f.elem)) \o <<f.tokens[1]>>

\* _hit_from_getattr on a variable: tokens = tokenize(citdl) + tokens
GetattrTokens(w, f) == _tokenize_citdl_expr(Citdl(w, f.elem)) \o f.tokens

\* _hit_from_getattr: tokens[0] is a name of elem; the scoperef moves inside
\* elem unless elem is a blob.
GetattrNames(w, c, f) ==
    LET attr == Raw(NamesGet(w, f.elem.id, f.tokens[1]))
    IN  IF Ilk(w, f.elem) = "blob" /\ Tag(w, f.elem) # "variable"
        THEN Return(c, RetVal(Hit(attr, f.sref), 1))
        ELSE Return(c, RetVal(Hit(attr, Sref(f.sref.blob,
                                             Append(f.sref.path,
                                                    Name(w, f.elem)))), 1))

\* _hit_from_getattr, lines 983-990: the scope's own citdl.
GetattrCitdl(w, c, f) ==
    IF Citdl(w, f.elem) # <<>>
    THEN _hit_from_type_inference(c, [f EXCEPT !.pc = "typed"],
                                  Citdl(w, f.elem), f.sref, BoolAsVariable,
                                  FALSE)
    ELSE Throw(c, f, "CodeIntelError")

\* _hit_from_getattr: the loop over the base classes, objects or interfaces.
GetattrRefs(w, c, f) ==
    IF f.refs # <<>>
    THEN _hit_from_type_inference(c, [f EXCEPT !.pc = "base", !.refs = Tail(@)],
                                  f.refs[1], f.sref, 0, f.defn)
    ELSE GetattrCitdl(w, c, f)

RefsName(ilk) ==
    CASE ilk \in {"class", "instance"} -> "classrefs"
      [] ilk = "object" -> "objectrefs"
      [] ilk = "interface" -> "interfacerefs"
      [] OTHER -> ""

_hit_from_getattr(w, c, f) ==
    LET first_token == f.tokens[1]
        ilk == Ilk(w, f.elem)
        named == InNames(w, f.elem.id, first_token)
    IN
    CASE f.pc = "start" ->
           IF Tag(w, f.elem) = "variable"
           THEN IF named THEN GetattrNames(w, c, f)
                ELSE IF Citdl(w, f.elem) = <<>>
                THEN Throw(c, f, "CodeIntelError")
                ELSE IF CountExceeded(c.st, Citdl(w, f.elem))
                THEN Throw(c, f, "EvalError")
                ELSE Push(WithSt(c, _check_infinite_recursion(
                                        c.st, Citdl(w, f.elem))),
                          [f EXCEPT !.pc = "vartokens"],
                          TokensFrame(GetattrTokens(w, f), Citdl(w, f.elem),
                                      f.sref, f.elem.id, f.defn))
           ELSE IF Tag(w, f.elem) # "scope"
           THEN Throw(c, f, "AssertionError")
           ELSE IF ilk = "function"
           THEN IF named THEN GetattrNames(w, c, f) ELSE GetattrCitdl(w, c, f)
           ELSE IF ilk \in {"class", "instance", "object", "interface", "blob"}
           THEN IF named THEN GetattrNames(w, c, f)
                ELSE Push(c, [f EXCEPT !.pc = "imports"],
                          ImportsFrame(f.tokens, f.elem, f.defn))
           ELSE Throw(c, f, "NotImplementedError")
      [] f.pc = "vartokens" ->
           IF c.ret.hit # NoHit THEN Return(c, c.ret)
           ELSE Throw(c, f, "CodeIntelError")
      [] f.pc = "imports" ->
           IF c.ret.hit # NoHit THEN Return(c, c.ret)
           ELSE GetattrRefs(w, c, [f EXCEPT !.refs =
                                       RefsAttr(w, f.elem, RefsName(ilk))])
      [] f.pc = "base" ->
           Push(c, [f EXCEPT !.pc = "basegetattr"],
                GetattrFrame(f.tokens, c.ret.hit.elem, c.ret.hit.sref, f.defn))
      [] f.pc = "basegetattr" -> Return(c, c.ret)
      [] f.pc = "except" -> GetattrRefs(w, c, f)
      [] f.pc = "typed" ->
           Push(c, [f EXCEPT !.pc = "tail"],
                GetattrFrame(f.tokens, c.ret.hit.elem, c.ret.hit.sref, f.defn))
      [] f.pc = "tail" -> Return(c, c.ret)

-----------------------------------------------------------------------------
(* Completions                                                             *)

\* elem.get("ilk") or elem.tag
KindOf(w, id) == IF w.el[id].ilk # "" THEN w.el[id].ilk ELSE w.el[id].tag

Member(type, name) == [type |-> type, name |-> name]

\* The hidden attributes as they would be if an instance were listed like
\* its class.
DefaultHiddenOfClass(ilk) ==
    CASE ilk \in {"class", "instance"} -> {"__hidden__", "__instancevar__"}
      [] OTHER -> {"__hidden__"}

\* The hidden attributes _members_from_hit starts with, by ilk.
DefaultHidden(ilk) ==
    CASE ilk = "class" -> {"__hidden__", "__instancevar__"}
      [] ilk = "instance" -> {"__hidden__", "__staticmethod__", "__ctor__"}
      [] OTHER -> {"__hidden__"}

\* _members_from_elem without its call of _hit_from_elem_imports:
\* [ok, members], ok = FALSE for the CodeIntelError of the import handler,
\* and [ask] when the symbol has to be looked up in the imports of blob.
_members_from_elem(w, st, id) ==
    LET e == w.el[id]
        blob == import_blob_name(w, e.module, PlainLibs(libs(w, st)))
        shown == IF e.alias # <<>> THEN e.alias ELSE e.symbol
    IN  IF e.tag # "import"
        THEN [ok |-> TRUE, ask |-> 0, members |-> {Member(KindOf(w, id), e.name)}]
        ELSE IF e.symbol = <<>>
        THEN [ok |-> TRUE, ask |-> 0,
              members |-> {Member("module",
                                  IF e.alias # <<>> THEN e.alias
                                  ELSE Split(e.module, "/")[1])}]
        ELSE IF blob = 0
        THEN [ok |-> FALSE, ask |-> 0, members |-> {}]
        ELSE IF e.symbol = <<"*">>
        THEN [ok |-> TRUE, ask |-> 0,
              members |-> {Member(KindOf(w, NamesGet(w, blob, n)), n) :
                              n \in NamesOf(w, blob)}]
        ELSE IF InNames(w, blob, e.symbol)
        THEN [ok |-> TRUE, ask |-> 0,
              members |-> {Member(KindOf(w, NamesGet(w, blob, e.symbol)), shown)}]
        ELSE [ok |-> TRUE, ask |-> blob, members |-> {}]

\* _members_from_hit: the scope's own citdl, lines 470-481.
MembersCitdl(w, c, f) ==
    IF Citdl(w, f.elem) # <<>>
    THEN _hit_from_type_inference(c, [f EXCEPT !.pc = "citdl"],
                                  Citdl(w, f.elem), f.sref, BoolAsVariable,
                                  FALSE)
    ELSE Return(c, [RetVal(NoHit, 0) EXCEPT !.members = f.members])

\* _members_from_hit without its loop over the base references.
MembersRefsSkipped(w, c, f) == MembersCitdl(w, c, f)

\* _members_from_hit: the loop over the base references, lines 460-468.
MembersRefs(w, c, f) ==
    IF f.refs # <<>>
    THEN _hit_from_type_inference(c, [f EXCEPT !.pc = "ref", !.refs = Tail(@)],
                                  f.refs[1], f.sref, 0, f.defn)
    ELSE MembersCitdl(w, c, f)

\* _members_from_hit: the loop over the children f.imps, lines 449-458.
RECURSIVE MembersChildren(_, _, _)
MembersChildren(w, c, f) ==
    IF f.imps = <<>>
    THEN MembersRefs(w, c, [f EXCEPT !.refs =
                                RefsAttr(w, f.elem, RefsName(Ilk(w, f.elem)))])
    ELSE LET child == f.imps[1]
             g == [f EXCEPT !.imps = Tail(@)]
             r == _members_from_elem(w, c.st, child)
         IN  IF w.el[child].attrs \cap f.hidden # {} \/ ~r.ok
             THEN MembersChildren(w, c, g)
             ELSE IF r.ask # 0
             THEN Push(c, [g EXCEPT !.pc = "child", !.child = child],
                       ImportsFrame(<<w.el[child].symbol>>, Raw(r.ask), FALSE))
             ELSE MembersChildren(w, c, [g EXCEPT !.members = @ \cup r.members])

_members_from_hit(w, c, f) ==
    CASE f.pc = "start" ->
           MembersChildren(w, c,
               [f EXCEPT !.hidden = IF @ = {} THEN DefaultHidden(Ilk(w, f.elem))
                                    ELSE @,
                         !.imps = Children(w, f.elem.id)])
      [] f.pc = "child" ->
           LET e == w.el[f.child]
               shown == IF e.alias # <<>> THEN e.alias ELSE e.symbol
           IN  MembersChildren(w, c,
                   IF c.ret.hit # NoHit
                   THEN [f EXCEPT !.members =
                            @ \cup {Member(IF Ilk(w, c.ret.hit.elem) # ""
                                           THEN Ilk(w, c.ret.hit.elem)
                                           ELSE Tag(w, c.ret.hit.elem), shown)}]
                   ELSE f)
      [] f.pc = "xchild" -> MembersChildren(w, c, f)
      [] f.pc = "ref" ->
           Push(c, [f EXCEPT !.pc = "refmembers"],
                MembersFrame(c.ret.hit, f.defn, f.hidden))
      [] f.pc = "xref" -> MembersRefs(w, c, f)
      [] f.pc = "refmembers" ->
           MembersRefs(w, c, [f EXCEPT !.members = @ \cup c.ret.members])
      [] f.pc = "citdl" ->
           Push(c, [f EXCEPT !.pc = "citdlmembers"],
                MembersFrame(c.ret.hit, f.defn, f.hidden))
      [] f.pc = "xcitdl" ->
           Return(c, [RetVal(NoHit, 0) EXCEPT !.members = f.members])
      [] f.pc = "citdlmembers" ->
           Return(c, [RetVal(NoHit, 0) EXCEPT !.members =
                                          f.members \cup c.ret.members])

-----------------------------------------------------------------------------
(* Call tips                                                               *)

\* _ctor_hit_from_class
CtorRefs(w, c, f) ==
    IF f.refs # <<>>
    THEN _hit_from_type_inference(c, [f EXCEPT !.pc = "base", !.refs = Tail(@)],
                                  f.refs[1], f.sref, 0, f.defn)
    ELSE Return(c, None)

_ctor_hit_from_class(w, c, f) ==
    CASE f.pc = "start" ->
           IF InNames(w, f.elem.id, <<"constructor">>)
           THEN Return(c, RetVal(
                    Hit(Raw(NamesGet(w, f.elem.id, <<"constructor">>)),
                        Sref(f.sref.blob, Append(f.sref.path, Name(w, f.elem)))),
                    0))
           ELSE CtorRefs(w, c, [f EXCEPT !.refs =
                                    RefsAttr(w, f.elem, "classrefs")])
      [] f.pc = "base" ->
           Push(c, [f EXCEPT !.pc = "basector"],
                CtorFrame(c.ret.hit.elem, c.ret.hit.sref, f.defn))
      [] f.pc = "basector" ->
           IF c.ret.hit # NoHit THEN Return(c, c.ret) ELSE CtorRefs(w, c, f)
      [] f.pc = "except" -> CtorRefs(w, c, f)

\* str.splitlines on the signature and the doc, each held as its lines.
_calltip_from_func(w, elem, class_name) ==
    LET e == w.el[elem.id]
    IN  (IF e.signature = <<>>
         THEN <<(IF class_name # <<>> THEN class_name ELSE e.name) \o <<"(...)">>>>
         ELSE e.signature) \o e.doc

\* _calltip_from_class, and _calltip_from_hit around it.
_calltip_from_hit(w, c, f) ==
    LET e == w.el[f.elem.id]
        tip(lines) == Return(c, [RetVal(NoHit, 0) EXCEPT !.list = <<lines>>])
        ctor == c.ret.hit.elem
    IN
    CASE f.pc = "start" ->
           IF e.tag = "variable"
           THEN Throw(c, f, "UnboundLocalError")
           ELSE IF e.tag # "scope"
           THEN Throw(c, f, "NotImplementedError")
           ELSE IF Ilk(w, f.elem) = "function"
           THEN tip(_calltip_from_func(w, f.elem, <<>>))
           ELSE IF Ilk(w, f.elem) \in {"class", "instance"}
           THEN IF e.signature # <<>>
                THEN tip(e.signature \o e.doc)
                ELSE Push(c, [f EXCEPT !.pc = "ctor"],
                          CtorFrame(f.elem, f.sref, FALSE))
           ELSE Throw(c, f, "NotImplementedError")
      [] f.pc = "ctor" ->
           IF c.ret.hit # NoHit
              /\ (w.el[ctor.id].doc # <<>> \/ w.el[ctor.id].signature # <<>>)
           THEN tip(_calltip_from_func(w, ctor, e.name))
           ELSE IF e.doc # <<>>
           THEN tip(SelectSeq(e.doc, LAMBDA ln : ln # <<>>))
           ELSE tip(<<e.name \o <<"()">>>>)

-----------------------------------------------------------------------------
(* Symbols and properties in scope                                         *)

\* The characters, in code point order, that the names of a world use.
Alphabet ==
    <<"(", ")", "*", ",", ".", "/", "0", "1", "2", "3", "4", "5", "6", "7", "8",
      "9", "A", "B", "C", "D", "E", "F", "G", "H", "I", "J", "K", "L", "M", "N",
      "O", "P", "Q", "R", "S", "T", "U", "V", "W", "X", "Y", "Z", "_", "a", "b",
      "c", "d", "e", "f", "g", "h", "i", "j", "k", "l", "m", "n", "o", "p", "q",
      "r", "s", "t", "u", "v", "w", "x", "y", "z">>

CodePoint(ch) == CHOOSE i \in DOMAIN Alphabet : Alphabet[i] = ch

\* The characters of an atom that stands for a whole identifier.
AtomChars(a) ==
    CASE a = "default" -> <<"d", "e", "f", "a", "u", "l", "t">>
      [] a = "exports" -> <<"e", "x", "p", "o", "r", "t", "s">>
      [] a = "require" -> <<"r", "e", "q", "u", "i", "r", "e">>
      [] a = "props" -> <<"p", "r", "o", "p", "s">>
      [] a = "propTypes" -> <<"p", "r", "o", "p", "T", "y", "p", "e", "s">>
      [] a = "constructor" ->
           <<"c", "o", "n", "s", "t", "r", "u", "c", "t", "o", "r">>
      [] a = "__arg" -> <<"_", "_", "a", "r", "g">>
      [] a = "__builtins__" ->
           <<"_", "_", "b", "u", "i", "l", "t", "i", "n", "s", "_", "_">>
      [] OTHER -> <<a>>

RECURSIVE Chars(_)
Chars(s) == IF s = <<>> THEN <<>> ELSE AtomChars(s[1]) \o Chars(Tail(s))

\* a < b for two strings of characters, as Python orders str.
RECURSIVE CharsLess(_, _)
CharsLess(a, b) ==
    IF b = <<>> THEN FALSE
    ELSE IF a = <<>> THEN TRUE
    ELSE IF a[1] = b[1] THEN CharsLess(Tail(a), Tail(b))
    ELSE CodePoint(a[1]) < CodePoint(b[1])

\* sorted(cplns, key=operator.itemgetter(1)): a stable insertion sort.
RECURSIVE InsertByName(_, _)
InsertByName(sorted, x) ==
    IF sorted = <<>> THEN <<x>>
    ELSE IF CharsLess(Chars(x.name), Chars(sorted[1].name))
         THEN <<x>> \o sorted
         ELSE <<sorted[1]>> \o InsertByName(Tail(sorted), x)

RECURSIVE SortByName(_, _)
SortByName(list, acc) ==
    IF list = <<>> THEN acc
    ELSE SortByName(Tail(list), InsertByName(acc, list[1]))

\* _available_symbols, lines 236-248: the children of one scope.
RECURSIVE SymbolsOfChildren(_, _, _, _)
SymbolsOfChildren(w, ids, expr, cplns) ==
    IF ids = <<>> THEN cplns
    ELSE LET e == w.el[ids[1]]
             name == IF e.tag # "import" THEN e.name
                     ELSE IF e.alias # <<>> THEN e.alias
                     ELSE IF e.symbol # <<>> THEN e.symbol
                     ELSE e.module
             ilk == IF KindOf(w, ids[1]) = "import" THEN "module"
                    ELSE KindOf(w, ids[1])
             found == \E i \in DOMAIN cplns : cplns[i].name = name
         IN  SymbolsOfChildren(w, Tail(ids), expr,
                 IF StartsWith(Chars(name), Chars(expr)) /\ ~found
                 THEN Append(cplns, Member(ilk, name)) ELSE cplns)

\* _available_symbols, lines 232-249: the walk up the scopes.
RECURSIVE SymbolsOfScopes(_, _, _, _, _)
SymbolsOfScopes(w, st, sref, expr, cplns) ==
    LET elem == _elem_from_scoperef(w, sref)
        r == parent_scoperef_from_scoperef(w, st, sref)
    IN  IF sref = NoSref THEN [ok |-> TRUE, list |-> cplns, st |-> st]
        ELSE IF elem = 0 THEN [ok |-> FALSE, list |-> <<>>, st |-> st]
        ELSE IF Children(w, elem) = <<>>
        THEN [ok |-> TRUE, list |-> cplns, st |-> st]
        ELSE IF ~r.ok THEN [ok |-> FALSE, list |-> <<>>, st |-> st]
        ELSE SymbolsOfScopes(w, r.st, r.sref, expr,
                             SymbolsOfChildren(w, Children(w, elem), expr, cplns))

\* _available_symbols, lines 251-261: the keywords.
KeywordCplns(w, expr, preceeding_text) ==
    LET allowed(k) == /\ StartsWith(Chars(w.keywords[k]), Chars(expr))
                      /\ \/ preceeding_text = <<>>
                         \/ w.keywords[k] \in {<<"N", "o", "n", "e">>,
                                               <<"l", "a", "m", "b", "d", "a">>}
        Pick[k \in 0..Len(w.keywords)] ==
            IF k = 0 THEN <<>>
            ELSE Pick[k - 1] \o (IF allowed(k)
                                 THEN <<Member("keyword", w.keywords[k])>>
                                 ELSE <<>>)
    IN  Pick[Len(w.keywords)]

_available_symbols(w, st, sref, expr, preceeding_text) ==
    LET r == SymbolsOfScopes(w, st, sref, expr, <<>>)
    IN  [r EXCEPT !.list = SortByName(@ \o KeywordCplns(w, expr, preceeding_text),
                                      <<>>)]

\* _available_properties, lines 266-271: the nearest scope flagged __jsx__,
\* or the last scope visited with no scoperef when there is none.
RECURSIVE JsxScope(_, _, _)
JsxScope(w, st, sref) ==
    LET elem == _elem_from_scoperef(w, sref)
        r == parent_scoperef_from_scoperef(w, st, sref)
    IN  IF elem = 0 THEN [ok |-> FALSE, elem |-> 0, sref |-> sref, st |-> st]
        ELSE IF "__jsx__" \in w.el[elem].attrs
        THEN [ok |-> TRUE, elem |-> elem, sref |-> sref, st |-> st]
        ELSE IF ~r.ok THEN [ok |-> FALSE, elem |-> 0, sref |-> sref, st |-> st]
        ELSE IF r.sref = NoSref
        THEN [ok |-> TRUE, elem |-> elem, sref |-> NoSref, st |-> r.st]
        ELSE JsxScope(w, r.st, r.sref)

PropsInfer(w, c, f) ==
    IF Tag(w, f.hit.elem) = "variable"
    THEN _hit_from_variable_type_inference(
             w, c, [f EXCEPT !.pc = "inferred"], f.hit.elem, f.hit.sref, FALSE)
    ELSE Return(c, [RetVal(NoHit, 0) EXCEPT !.members =
                       {Member("attribute", n) :
                           n \in NamesOf(w, f.hit.elem.id) \ f.hidden}])

_available_properties(w, c, f) ==
    CASE f.pc = "start" ->
           LET j == JsxScope(w, c.st, f.sref)
               props == IF InNames(w, j.elem, <<"props">>)
                        THEN NamesOf(w, NamesGet(w, j.elem, <<"props">>))
                        ELSE {}
           IN  IF ~j.ok
               THEN Throw(c, f, "KeyError")
               ELSE _hit_from_variable_type_inference(
                        w, WithSt(c, j.st),
                        [f EXCEPT !.pc = "typed", !.hidden = props],
                        Raw(j.elem), j.sref, FALSE)
      [] f.pc = "typed" ->
           Push(c, [f EXCEPT !.pc = "got"],
                GetattrFrame(<<<<"propTypes">>>>, c.ret.hit.elem, c.ret.hit.sref,
                             FALSE))
      [] f.pc = "got" ->
           IF c.ret.hit # NoHit
           THEN PropsInfer(w, c, [f EXCEPT !.hit = c.ret.hit])
           ELSE Return(c, None)
      [] f.pc = "inferred" -> PropsInfer(w, c, [f EXCEPT !.hit = c.ret.hit])

\* The completions offered for the trigger type available-exceptions.
base_exception_class_completions ==
    <<<<"E", "x", "c", "e", "p", "t", "i", "o", "n">>>>

\* eval_cplns: f.kind is trg.type, f.defn tells whether trg.extra holds a
\* preceeding_text.
eval_cplns(w, c, f) ==
    CASE f.pc = "start" ->
           IF f.kind = "available-exceptions"
           THEN Return(c, [RetVal(NoHit, 0) EXCEPT
                              !.list = base_exception_class_completions])
           ELSE IF f.kind = "local-symbols"
           THEN LET r == _available_symbols(w, c.st, f.sref, f.expr,
                                            IF f.defn THEN <<"x">> ELSE <<>>)
                IN  IF r.ok
                    THEN Return(WithSt(c, r.st),
                                [RetVal(NoHit, 0) EXCEPT !.list = r.list])
                    ELSE Throw(c, f, "KeyError")
           ELSE IF f.kind = "object-properties"
           THEN Push(c, [f EXCEPT !.pc = "done"], PropsFrame(f.expr, f.sref))
           ELSE Push(c, [f EXCEPT !.pc = "hit"],
                     CitdlFrame(f.expr, f.sref, 0, FALSE))
      [] f.pc = "hit" ->
           Push(c, [f EXCEPT !.pc = "done", !.hit = c.ret.hit],
                MembersFrame(c.ret.hit, FALSE, {}))
      [] f.pc = "done" -> Return(c, c.ret)

\* eval_calltips
eval_calltips(w, c, f) ==
    CASE f.pc = "start" ->
           Push(c, [f EXCEPT !.pc = "hit"], CitdlFrame(f.expr, f.sref, 0, FALSE))
      [] f.pc = "hit" ->
           Push(c, [f EXCEPT !.pc = "done"], CalltipFrame(c.ret.hit))
      [] f.pc = "done" -> Return(c, c.ret)

\* eval_defns: the declaration is the hit itself.
eval_defns(w, c, f) ==
    CASE f.pc = "start" ->
           Push(c, [f EXCEPT !.pc = "hit"], CitdlFrame(f.expr, f.sref, 0, TRUE))
      [] f.pc = "hit" ->
           Return(c, [c.ret EXCEPT !.list = <<c.ret.hit>>])

-----------------------------------------------------------------------------
(* The machine                                                             *)

\* The try blocks as they would be with `except Exception`: every error is
\* caught where a CodeIntelError is.
HandlerPcCatchAll(f, exc) ==
    CASE f.fn = "_hit_from_first_part" /\ f.pc = "fallback" -> "except"
      [] f.fn = "_hit_from_elem_imports" /\ f.pc \in {"wild", "sub"} ->
           "except"
      [] f.fn = "_hit_from_getattr" /\ f.pc \in {"base", "basegetattr"} ->
           "except"
      [] f.fn = "_ctor_hit_from_class" /\ f.pc = "base" -> "except"
      [] f.fn = "_members_from_hit" /\ f.pc = "child" -> "xchild"
      [] f.fn = "_members_from_hit" /\ f.pc = "ref" -> "xref"
      [] f.fn = "_members_from_hit" /\ f.pc = "citdl" -> "xcitdl"
      [] OTHER -> ""

\* Where a frame that waits at f.pc continues when the call it waits for
\* raises exc: "" when the call is in no try block that catches exc.
HandlerPc(f, exc) ==
    IF ~IsCodeIntelError(exc) THEN ""
    ELSE CASE f.fn = "_hit_from_first_part" /\ f.pc = "fallback" -> "except"
           [] f.fn = "_hit_from_elem_imports" /\ f.pc \in {"wild", "sub"} ->
                "except"
           [] f.fn = "_hit_from_getattr" /\ f.pc \in {"base", "basegetattr"} ->
                "except"
           [] f.fn = "_ctor_hit_from_class" /\ f.pc = "base" -> "except"
           [] f.fn = "_members_from_hit" /\ f.pc = "child" -> "xchild"
           [] f.fn = "_members_from_hit" /\ f.pc = "ref" -> "xref"
           [] f.fn = "_members_from_hit" /\ f.pc = "citdl" -> "xcitdl"
           [] OTHER -> ""

\* The exception c.exc travels up to the innermost frame that catches it.
Unwind(c) ==
    LET catching == {i \in 1..Len(c.stk) : HandlerPc(c.stk[i], c.exc) # ""}
        top == CHOOSE i \in catching : \A j \in catching : j <= i
    IN  IF catching = {}
        THEN [c EXCEPT !.stk = <<>>]
        ELSE [c EXCEPT !.stk = [SubSeq(@, 1, top) EXCEPT
                                   ![top].pc = HandlerPc(c.stk[top], c.exc)],
                       !.exc = ""]

Halted(c) == c.stk = <<>>

Step(w, c) ==
    LET f == Top(c)
    IN  IF c.exc # "" THEN Unwind(c)
        ELSE CASE f.fn = "_hit_from_citdl" -> _hit_from_citdl(w, c, f)
               [] f.fn = "_hit_from_tokens" -> _hit_from_tokens(w, c, f)
               [] f.fn = "_hit_from_first_part" -> _hit_from_first_part(w, c, f)
               [] f.fn = "_hit_from_require" -> _hit_from_require(w, c, f)
               [] f.fn = "_hit_from_elem_imports" ->
                    _hit_from_elem_imports(w, c, f)
               [] f.fn = "_hit_from_call" -> _hit_from_call(w, c, f)
               [] f.fn = "_hit_from_getattr" -> _hit_from_getattr(w, c, f)
               [] f.fn = "_members_from_hit" -> _members_from_hit(w, c, f)
               [] f.fn = "_ctor_hit_from_class" -> _ctor_hit_from_class(w, c, f)
               [] f.fn = "_calltip_from_hit" -> _calltip_from_hit(w, c, f)
               [] f.fn = "_available_properties" ->
                    _available_properties(w, c, f)
               [] f.fn = "eval_cplns" -> eval_cplns(w, c, f)
               [] f.fn = "eval_calltips" -> eval_calltips(w, c, f)
               [] f.fn = "eval_defns" -> eval_defns(w, c, f)

\* Up to 2^k steps, stopping when the last frame has returned or raised.
RECURSIVE Run(_, _, _)
Run(w, c, k) ==
    IF Halted(c) THEN c
    ELSE IF k = 0 THEN Step(w, c)
    ELSE Once(Run(w, c, k - 1), LAMBDA m : Run(w, m, k - 1))

\* Enough for the longest resolution of a world: each of the expressions of
\* a world is counted at most _SENTINEL_MAX_EXPR_COUNT times.
RunDepth == 14

Call(frame, st) == [stk |-> <<frame>>, ret |-> None, exc |-> "", st |-> st]

Finish(w, frame, st) ==
    Once(Call(frame, st), LAMBDA c : Run(w, c, RunDepth))

-----------------------------------------------------------------------------
(* Worlds.  Every world has the buffer f in directory t (element 1) and    *)
(* the stdlib blob "*" (element 2) with the classes N and O.               *)

DirT == <<Str("t")>>
DirU == DirT \o <<Str("u")>>
DirS == <<Str("s")>>
BufPath == DirT \o <<Str("f")>>

Base ==
    <<Blob(Str("f"), BufPath), Blob(Str("*"), <<>>),
      Scope("class", Str("N"), 2), Scope("class", Str("O"), 2)>>

BaseFiles ==
    {[dir |-> DirT, mod |-> Str("f"), blob |-> 1],
     [dir |-> DirS, mod |-> Str("*"), blob |-> 2]}

\* The keywords of the language service the buffer belongs to.
Keywords == <<<<"i", "f">>, <<"N", "o", "n", "e">>>>

MkWorld(family, el, files, inits) ==
    [family |-> family, el |-> Base \o el, files |-> BaseFiles \cup files,
     inits |-> inits, buf |-> 1, bufpath |-> BufPath,
     buflibs |-> <<Lib("curdirlib", DirT), Lib("stdlib", DirS)>>,
     keywords |-> Keywords]

VarNames == <<Str("a"), Str("b"), Str("c"), Str("d")>>

\* Variables a, b, ... at the top of the buffer, each with the name of one
\* of them or of the class N as its citdl, and a function g that may hold a
\* local variable a.
NumVars == 3

VarCitdls == {VarNames[i] : i \in 1..NumVars} \cup {Str("N")}

CycleWorlds ==
    {MkWorld("cycle",
             [i \in 1..NumVars |-> Variable(VarNames[i], 1, citdls[i])]
                 \o <<Scope("function", Str("g"), 1)>>
                 \o (IF local = Str("-") THEN <<>>
                     ELSE <<Variable(Str("a"), 4 + NumVars + 1, local)>>),
             {}, {}) :
        citdls \in [1..NumVars -> VarCitdls],
        local \in {Str("-"), Str("a"), Str("b")}}

\* Variables a and x and a class K at the top of the buffer: a is typed by
\* x, by K or by nothing, x may hold a member b that may hold a member c, and
\* K holds the members b and c.
ChainWorlds ==
    {MkWorld("chain",
             <<Variable(Str("a"), 1, ca), Variable(Str("x"), 1, cx),
               Scope("class", Str("K"), 1),
               Variable(Str("b"), 7, kb), Variable(Str("c"), 7, kc)>>
                 \o (IF xb = Str("-") THEN <<>>
                     ELSE <<Variable(Str("b"), 6, xb)>>)
                 \o (IF xb = Str("-") \/ xc = Str("-") THEN <<>>
                     ELSE <<Variable(Str("c"), 10, xc)>>),
             {}, {}) :
        ca \in {<<>>, Str("x"), Str("K")}, cx \in {<<>>, Str("K")},
        kb \in {<<>>, Str("K")}, kc \in {<<>>, Str("N")},
        xb \in {Str("-"), <<>>, Str("K"), Str("N")},
        xc \in {Str("-"), <<>>, Str("N")}}

\* Classes C, B and A at the top of the buffer: C extends B, A, both or a
\* class Z that does not exist, B extends nothing, A or C, and members of
\* B and A may be hidden, instance variables or static methods.
ClassWorlds ==
    {MkWorld("class",
             <<[Scope("class", Str("C"), 1) EXCEPT !.refs = rc],
               [Scope("class", Str("B"), 1) EXCEPT !.refs = rb],
               Scope("class", Str("A"), 1),
               Variable(Str("p"), 5, Str("N")),
               [Variable(Str("p"), 6, Str("N")) EXCEPT !.attrs = pb],
               [Scope("function", Str("r"), 6) EXCEPT !.attrs = rattr],
               [Variable(Str("s"), 7, <<>>) EXCEPT !.attrs = sa]>>,
             {}, {}) :
        rc \in {<<Str("B")>>, <<Str("B"), Str("A")>>, <<Str("Z"), Str("B")>>,
                <<Str("A")>>},
        rb \in {<<>>, <<Str("A")>>, <<Str("C")>>},
        pb \in {{}, {"__hidden__"}, {"__instancevar__"}},
        rattr \in {{}, {"__staticmethod__"}},
        sa \in {{}, {"__instancevar__"}}}

\* A function h at the top of the buffer that returns the type of its
\* first or second argument, variables a and b beside it, and a function g
\* that, like h, may hold a local variable a.
CallWorlds ==
    {MkWorld("call",
             <<[Scope("function", Str("h"), 1) EXCEPT !.returns = ret],
               Variable(Str("a"), 1, ta), Variable(Str("b"), 1, tb),
               Scope("function", Str("g"), 1)>>
                 \o (IF ga = Str("-") THEN <<>>
                     ELSE <<Variable(Str("a"), 8, ga)>>)
                 \o (IF ha = Str("-") THEN <<>>
                     ELSE <<Variable(Str("a"), 5, ha)>>),
             {}, {}) :
        ret \in {<<"__arg", "1">>, <<"__arg", "2">>},
        ta \in {<<>>, Str("N")}, tb \in {Str("N"), Str("a")},
        ga \in {Str("-"), Str("O"), Str("b")},
        ha \in {Str("-"), Str("O")}}

\* The buffer imports from the module k, which lies beside the buffer or
\* in the directory u below it, by a plain or a relative module name, the
\* default export under the alias X, every name, or the name m.  The
\* module exports m directly, in the object literal of its default export,
\* or in a variable foo that its default export names; m may be flagged as
\* an alias (__no_defn__) and is typed by N or by the variable y of k.
ImportShapes == {"exports", "literal", "named"}

ImportModules ==
    {[module |-> Str("k"), dir |-> DirT, mod |-> Str("k")],
     [module |-> <<".", "/", "k">>, dir |-> DirT, mod |-> Str("k")],
     [module |-> <<".", "/", "u", "/", "k">>, dir |-> DirU,
      mod |-> <<"u", "/", "k">>]}

ImportSymbols ==
    {[symbol |-> <<>>, alias |-> Str("X")],
     [symbol |-> Str("*"), alias |-> <<>>],
     [symbol |-> Str("m"), alias |-> <<>>]}

ImportWorlds ==
    {MkWorld("import",
             <<Blob(Str("k"), Append(at.dir, Str("k"))),
               Import(1, at.module, sym.symbol, sym.alias),
               Variable(<<"exports">>, 5, <<>>),
               Variable(Str("y"), 5, Str("N"))>>
                 \o (CASE shape = "exports" ->
                            <<[Variable(Str("m"), 7, tm) EXCEPT !.attrs = flag]>>
                        [] shape = "literal" ->
                            <<Variable(<<"default">>, 7, Str("O")),
                              [Variable(Str("m"), 9, tm) EXCEPT !.attrs = flag]>>
                        [] shape = "named" ->
                            <<Variable(<<"f", "o", "o">>, 5, Str("O")),
                              [Variable(<<"default">>, 7, <<"f", "o", "o">>)
                                  EXCEPT !.attrs = {"__no_defn__"}],
                              [Variable(Str("m"), 9, tm) EXCEPT !.attrs = flag]>>),
             {[dir |-> DirT, mod |-> at.mod, blob |-> 5]}, {}) :
        at \in ImportModules, sym \in ImportSymbols, shape \in ImportShapes,
        flag \in {{}, {"__no_defn__"}}, tm \in {Str("N"), Str("y")}}

-----------------------------------------------------------------------------
(* Resolver scenarios: one evaluator resolves the query of the state.      *)

\* What a run of the machine ended with.
Outcome(run) ==
    Once(run, LAMBDA c :
        [done |-> Halted(c), exc |-> c.exc,
         hit |-> IF Halted(c) /\ c.exc = "" THEN c.ret.hit ELSE NoHit,
         members |-> IF Halted(c) /\ c.exc = "" THEN c.ret.members ELSE {},
         list |-> IF Halted(c) /\ c.exc = "" THEN c.ret.list ELSE <<>>])

NoOutcome ==
    [done |-> FALSE, exc |-> "", hit |-> NoHit, members |-> {}, list |-> <<>>]

\* TreeEvaluator.get_start_scoperef: the scope of the trigger line.
get_start_scoperef(w, q) == Sref(w.buf, q.path)

\* The paths of the scopes of the buffer a request can start in.
RECURSIVE ScopePathsFrom(_, _, _)
ScopePathsFrom(w, id, path) ==
    {path} \cup
    UNION {ScopePathsFrom(w, c, Append(path, w.el[c].name)) :
              c \in {c \in 1..Len(w.el) :
                        w.el[c].parent = id /\ w.el[c].tag = "scope"}}

StartPaths(w) == ScopePathsFrom(w, w.buf, <<>>)

Exprs(w) ==
    CASE w.family = "cycle" -> {VarNames[i] : i \in 1..NumVars}
      [] w.family = "chain" ->
           {<<"a", ".", "b", ".", "c">>, <<"x", ".", "b", ".", "c">>,
            <<"a", ".", "b">>}
      [] w.family = "class" -> {Str("C"), Str("B")}
      [] w.family = "import" ->
           {<<"X", ".", "m">>, Str("X"), Str("m"), Str("y"),
            <<"exports", ".", "m">>}
      [] w.family = "call" ->
           {<<"h", "(", "a", ")">>, <<"h", "(", "a", ",", "b", ")">>,
            <<"h", "(", "b", ",", "a", ")">>, <<"h", "(", ",", "a", ")">>,
            <<"h", "(", "__arg", "1", ",", "a", ")">>}

Queries(w) ==
    {[expr |-> e, path |-> p, defn |-> d, type |-> "object-members"] :
        e \in Exprs(w), p \in StartPaths(w), d \in BOOLEAN}

NoOut ==
    [first |-> NoOutcome, second |-> NoOutcome, steps |-> NoOutcome,
     own |-> NoOutcome, bases |-> {}, direct |-> NoOutcome, arg |-> 0,
     eval |-> NoOutcome, st |-> NewSt, st2 |-> NewSt]

\* A request for one expression at one scope of the buffer of a world.
InitOf(worlds) ==
    /\ world \in worlds
    /\ query \in Queries(world)
    /\ phase = "ready"
    /\ out = NoOut
    /\ ctl = 0 /\ trg = 0 /\ scan = 0

\* hit = self._hit_from_citdl(expr, start_scoperef, defn_only=...)
Resolve ==
    /\ phase = "ready"
    /\ \E c \in {Finish(world, CitdlFrame(query.expr,
                                           get_start_scoperef(world, query),
                                           0, query.defn), NewSt)} :
          out' = [out EXCEPT !.first = Outcome(c), !.st = c.st]
    /\ phase' = "resolved"
    /\ UNCHANGED <<world, query, ctl, trg, scan>>

\* The same evaluator resolves the same expression once more.
Again ==
    /\ phase = "resolved"
    /\ \E c \in {Finish(world, CitdlFrame(query.expr,
                                           get_start_scoperef(world, query),
                                           0, query.defn), out.st)} :
          out' = [out EXCEPT !.second = Outcome(c), !.st = c.st]
    /\ phase' = "again"
    /\ UNCHANGED <<world, query, ctl, trg, scan>>

\* The final loop of _hit_from_tokens alone, for the hit of c.
InferLast(w, c, q) ==
    IF ~Halted(c) \/ c.exc # "" THEN c
    ELSE Once([c EXCEPT !.stk =
                  <<[TokensFrame(<<q.expr>>, q.expr, c.ret.hit.sref, 0,
                                 q.defn) EXCEPT !.pc = "first"]>>,
                        !.ret = RetVal(c.ret.hit, 1)],
              LAMBDA d : Run(w, d, RunDepth))

\* One pass of the loop of _hit_from_tokens for each token of rest, each
\* with that token alone as the remaining tokens.
RECURSIVE StepTokens(_, _, _, _)
StepTokens(w, c, rest, q) ==
    IF ~Halted(c) \/ c.exc # "" \/ rest = <<>> THEN c
    ELSE Once(Finish(w, IF rest[1][1] = "("
                        THEN CallFrame(c.ret.hit.elem, c.ret.hit.sref, rest[1],
                                       get_start_scoperef(w, q), q.defn)
                        ELSE GetattrFrame(<<rest[1]>>, c.ret.hit.elem,
                                          c.ret.hit.sref, q.defn),
                     c.st),
              LAMBDA d : StepTokens(w, d, Tail(rest), q))

\* The first token alone: _hit_from_first_part and the check of its hit.
StepFirst(w, tokens, q) ==
    Once(Finish(w, FirstPartFrame(<<tokens[1]>>, get_start_scoperef(w, q),
                                  0, q.defn), NewSt),
         LAMBDA c : IF Halted(c) /\ c.exc = "" /\ c.ret.hit = NoHit
                    THEN [c EXCEPT !.exc = "CodeIntelError"]
                    ELSE c)

\* A new evaluator resolves the expression of the query token by token.
Stepwise ==
    /\ phase = "resolved"
    /\ \E tokens \in {_tokenize_citdl_expr(query.expr)} :
       \E first \in {StepFirst(world, tokens, query)} :
       \E last \in {StepTokens(world, first, Tail(tokens), query)} :
          out' = [out EXCEPT !.steps = Outcome(InferLast(world, last, query))]
    /\ phase' = "stepped"
    /\ UNCHANGED <<world, query, ctl, trg, scan>>

\* members = self._members_from_hit(hit), as eval_cplns goes on after
\* the resolution.
Members ==
    /\ phase = "resolved"
    /\ out.first.hit # NoHit
    /\ \E c \in {Finish(world, MembersFrame(out.first.hit, FALSE, {}), out.st)} :
          out' = [out EXCEPT !.own = Outcome(c), !.st = c.st]
    /\ phase' = "members"
    /\ UNCHANGED <<world, query, ctl, trg, scan>>

\* What a new evaluator resolves the base named ref to from the scope of
\* the hit, and the members it computes for that base on its own.
BaseOf(w, hit, ref) ==
    Once(Finish(w, CitdlFrame(ref, hit.sref, 0, FALSE), NewSt),
         LAMBDA b :
            [ref |-> ref, hit |-> Outcome(b).hit,
             own |-> IF Halted(b) /\ b.exc = ""
                     THEN Outcome(Finish(w, MembersFrame(b.ret.hit, FALSE, {}),
                                         b.st))
                     ELSE NoOutcome])

\* The members of each base of the class the hit is.
BaseMembers ==
    /\ phase = "members"
    /\ LET refs == RefsAttr(world, out.first.hit.elem, "classrefs")
       IN  out' = [out EXCEPT !.bases =
                      {BaseOf(world, out.first.hit, refs[i]) :
                          i \in DOMAIN refs}]
    /\ phase' = "bases"
    /\ UNCHANGED <<world, query, ctl, trg, scan>>

\* The number K and the text of the argument the call of the query hands
\* to a function that returns the type of its K-th argument; k = 0 when
\* the query is no such call or has fewer than K arguments.
CalledArg(w, q) ==
    LET tokens == _tokenize_citdl_expr(q.expr)
    IN  Once(Outcome(Finish(w, FirstPartFrame(<<tokens[1]>>,
                                              get_start_scoperef(w, q), 0,
                                              q.defn), NewSt)).hit,
             LAMBDA callee :
                LET returns == w.el[callee.elem.id].returns
                    args == Split(SubSeq(tokens[2], 2, Len(tokens[2]) - 1), ",")
                    k == int(Drop(returns, 1))
                IN  IF /\ Len(tokens) = 2 /\ tokens[2][1] = "("
                       /\ callee # NoHit
                       /\ Ilk(w, callee.elem) = "function"
                       /\ StartsWith(returns, <<"__arg">>)
                       /\ k >= 1 /\ k <= Len(args)
                    THEN [k |-> k, text |-> args[k]]
                    ELSE [k |-> 0, text |-> <<>>])

\* A new evaluator resolves the K-th argument of the call of the query
\* from the start scope of the query.
DirectArg ==
    /\ phase = "resolved"
    /\ \E a \in {CalledArg(world, query)} :
          /\ a.k > 0
          /\ out' = [out EXCEPT
                        !.direct = Outcome(Finish(world,
                                       CitdlFrame(a.text,
                                                  get_start_scoperef(world, query),
                                                  0, query.defn), NewSt)),
                        !.arg = a.k]
    /\ phase' = "direct"
    /\ UNCHANGED <<world, query, ctl, trg, scan>>

\* Chains of inferred types: a resolution and its repetition.
Init == InitOf(CycleWorlds)

Next == Resolve \/ Again

Spec == Init /\ [][Next]_vars

\* Dotted expressions: in one call and token by token.
InitChain == InitOf(ChainWorlds)

NextChain == Resolve \/ Stepwise

SpecChain == InitChain /\ [][NextChain]_vars

\* Classes: the members of a class and of its bases.
InitClass == InitOf(ClassWorlds)

NextClass == Resolve \/ Members \/ BaseMembers

SpecClass == InitClass /\ [][NextClass]_vars

\* Imports: a resolution and its repetition.
InitImport == InitOf(ImportWorlds)

NextImport == Resolve \/ Again

SpecImport == InitImport /\ [][NextImport]_vars

\* The trigger types a tree evaluator is made for.
TrgTypes ==
    {"object-members", "literal-members", "call-signature",
     "object-properties", "local-symbols", "available-exceptions"}

\* Requests of every trigger type, with and without preceeding text, for
\* expressions of the buffer and for expressions that name nothing.
EvalQueries(w) ==
    {[expr |-> e, path |-> p, defn |-> d, type |-> t] :
        e \in {Str("z"), <<"z", ".", "m">>, Str("a"), <<"h", "(", "a", ")">>},
        p \in StartPaths(w), d \in BOOLEAN, t \in TrgTypes}

\* One of eval_cplns, eval_calltips and eval_defns, by a new evaluator.
EvalOf(fn) ==
    /\ phase = "ready"
    /\ \E c \in {Finish(world,
                         EvalFrame(fn, query.type, query.expr,
                                   get_start_scoperef(world, query), query.defn),
                         NewSt)} :
          out' = [out EXCEPT !.eval = Outcome(c), !.st = c.st]
    /\ phase' = fn
    /\ UNCHANGED <<world, query, ctl, trg, scan>>

EvalCplns == EvalOf("eval_cplns")

EvalCalltips == EvalOf("eval_calltips")

EvalDefns == EvalOf("eval_defns")

InitEval ==
    /\ world \in CallWorlds
    /\ query \in EvalQueries(world)
    /\ phase = "ready"
    /\ out = NoOut
    /\ ctl = 0 /\ trg = 0 /\ scan = 0

NextEval == EvalCplns \/ EvalCalltips \/ EvalDefns

SpecEval == InitEval /\ [][NextEval]_vars

\* Calls of a function that returns the type of an argument.
InitCall == InitOf(CallWorlds)

NextCall == Resolve \/ DirectArg

SpecCall == InitCall /\ [][NextCall]_vars

-----------------------------------------------------------------------------
(* C1: cycles in the inferred types                                        *)

\* The child named name that code in the scope id sees, looking outwards
\* through the enclosing scopes and passing over the element skip; 0 when
\* there is none.
RECURSIVE Denotes(_, _, _, _)
Denotes(w, id, name, skip) ==
    IF InNames(w, id, name) /\ NamesGet(w, id, name) # skip
    THEN NamesGet(w, id, name)
    ELSE IF w.el[id].parent = 0 THEN 0
    ELSE Denotes(w, w.el[id].parent, name, skip)

\* The symbol the inferred type of the variable v names, 0 when v is no
\* variable or its type names no symbol of the buffer.  With past_self the
\* name is looked up past v itself.
TypeOf(w, v, past_self) ==
    IF v = 0 \/ w.el[v].tag # "variable" \/ w.el[v].citdl = <<>> THEN 0
    ELSE Denotes(w, w.el[v].parent, w.el[v].citdl, IF past_self THEN v ELSE 0)

RECURSIVE TypeChain(_, _, _, _)
TypeChain(w, v, past_self, n) ==
    IF n = 0 \/ v = 0 THEN v
    ELSE TypeChain(w, TypeOf(w, v, past_self), past_self, n - 1)

\* The variable the expression of the query names in its start scope.
Queried(w, q) ==
    Denotes(w, _elem_from_scoperef(w, get_start_scoperef(w, q)), q.expr, 0)

\* The chain of inferred types of the queried variable comes back to it.
OnTypeCycle(w, q, past_self) ==
    /\ Queried(w, q) # 0
    /\ \E k \in 1..Len(w.el) :
          TypeChain(w, Queried(w, q), past_self, k) = Queried(w, q)

-----------------------------------------------------------------------------
(* C2: a chain in one call and token by token                              *)

NoVariableMembers(w) ==
    \A i \in 1..Len(w.el) :
        w.el[i].parent # 0 => w.el[w.el[i].parent].tag # "variable"

-----------------------------------------------------------------------------
(* C3: the members of a class and of its bases                             *)

\* C3: the members computed for a class hold the members computed for each
\* base class of it that resolves, where a member hidden in the base is no
\* member of the base, and no two of them share kind and name.
C3_MembersHoldBaseMembers ==
    (/\ phase = "bases"
     /\ Ilk(world, out.first.hit.elem) = "class"
     /\ out.own.done /\ out.own.exc = "") =>
        /\ \A b \in out.bases :
              (/\ b.hit # NoHit
               /\ Ilk(world, b.hit.elem) = "class"
               /\ b.own.done /\ b.own.exc = "") =>
                  b.own.members \subseteq out.own.members
        /\ \A m, n \in out.own.members :
              (m.type = n.type /\ m.name = n.name) => m = n

C3_Witness ==
    /\ phase = "bases"
    /\ Name(world, out.first.hit.elem) = Str("C")
    /\ out.own.exc = ""
    /\ \E b \in out.bases :
          /\ b.ref = Str("B") /\ b.own.done /\ b.own.exc = ""
          /\ Member("function", Str("r")) \in b.own.members
          /\ Member("variable", Str("s")) \in b.own.members
          /\ Member("variable", Str("s")) \in out.own.members

-----------------------------------------------------------------------------
(* C4: a function that returns the type of its K-th argument               *)

-----------------------------------------------------------------------------
(* C5, C6: imports                                                         *)

\* C5: the evaluator that resolved an expression resolves it once more,
\* from the same start scope and with the symbol trees and libraries
\* unchanged, to the same Hit, and fails the second time when it failed
\* the first time.
C5_SecondResolutionSame ==
    phase = "again" =>
        /\ out.second.done
        /\ out.second.exc = out.first.exc
        /\ out.second.hit = out.first.hit

\* The buffer imports the default export of the module k under the alias X.
ImportsDefaultAsX(w) ==
    \E i \in 1..Len(w.el) :
        /\ w.el[i].tag = "import" /\ w.el[i].parent = w.buf
        /\ w.el[i].symbol = <<>> /\ w.el[i].alias = Str("X")

\* The object that is the default export of the module whose blob is b:
\* the variable default of its exports when that holds members itself, else
\* the variable of the module that default names; 0 when there is none.
DefaultObject(w, b) ==
    LET exports == IF InNames(w, b, <<"exports">>)
                   THEN NamesGet(w, b, <<"exports">>) ELSE 0
        default == IF exports # 0 /\ InNames(w, exports, <<"default">>)
                   THEN NamesGet(w, exports, <<"default">>) ELSE 0
    IN  IF default = 0 THEN 0
        ELSE IF NamesOf(w, default) # {} THEN default
        ELSE Denotes(w, b, w.el[default].citdl, default)

\* The member m of the default export of the module k, 0 when there is none.
DefaultMember(w) ==
    LET obj == DefaultObject(w, 5)
    IN  IF obj # 0 /\ InNames(w, obj, Str("m")) THEN NamesGet(w, obj, Str("m"))
        ELSE 0

\* The declaration query for "X.m" at the module scope of a buffer that
\* imports the default export of k as X, where that export is an object
\* with a variable m that has a citdl.
DeclarationOfXm ==
    /\ phase = "resolved"
    /\ query.defn /\ query.path = <<>> /\ query.expr = <<"X", ".", "m">>
    /\ ImportsDefaultAsX(world)
    /\ DefaultMember(world) # 0
    /\ world.el[DefaultMember(world)].tag = "variable"
    /\ world.el[DefaultMember(world)].citdl # <<>>

\* C6 as stated: the declaration query yields the variable m itself, its
\* citdl not followed, in the blob of the module.
C6_AsStated ==
    DeclarationOfXm =>
        /\ out.first.hit.elem = Raw(DefaultMember(world))
        /\ out.first.hit.sref.blob = 5

\* C6: when m is not flagged as an alias (__no_defn__), the declaration
\* query yields the variable m itself, its citdl not followed, with a
\* scoperef in the blob of the module.
C6_DeclarationIsMember ==
    (DeclarationOfXm /\ ~NoDefn(world, Raw(DefaultMember(world)))) =>
        /\ out.first.hit.elem = Raw(DefaultMember(world))
        /\ out.first.hit.sref.blob = 5

C6_Witness ==
    /\ DeclarationOfXm
    /\ ~NoDefn(world, Raw(DefaultMember(world)))
    /\ world.el[6].module = Str("k")
    /\ out.first.hit = Hit(Raw(10), Sref(5, <<<<"exports">>, <<"default">>>>))
    /\ Citdl(world, out.first.hit.elem) = Str("N")

-----------------------------------------------------------------------------
(* C7: an expression whose first part resolves to nothing                  *)

\* _hit_from_first_part finds the first token of the expression of the
\* query in no scope, through no import and through no citdl fallback.
FirstPartFails(w, q, defn_only) ==
    LET c == Finish(w, FirstPartFrame(_tokenize_citdl_expr(q.expr),
                                      get_start_scoperef(w, q), 0, defn_only),
                    NewSt)
    IN  Halted(c) /\ c.exc = "" /\ c.ret.hit = NoHit

Evaluated == phase \in {"eval_cplns", "eval_calltips", "eval_defns"}

\* An evaluation that ended in an error and produced nothing.
EndedInError(o) ==
    o.done /\ o.exc # "" /\ o.members = {} /\ o.list = <<>> /\ o.hit = NoHit

\* C7 as stated: when the first token of the expression resolves to
\* nothing, each of eval_cplns, eval_calltips and eval_defns ends in an
\* error and produces nothing.
C7_AsStated ==
    (Evaluated /\ FirstPartFails(world, query, phase = "eval_defns"))
        => EndedInError(out.eval)

\* The trigger types for which eval_cplns resolves the expression.
ResolvingTypes == {"object-members", "literal-members", "call-signature"}

\* C7: when the first token of the expression resolves to nothing,
\* eval_calltips and eval_defns, and eval_cplns for a trigger type that
\* resolves the expression, end in an error and produce nothing.
C7_UnresolvedEndsInError ==
    (/\ Evaluated
     /\ phase = "eval_cplns" => query.type \in ResolvingTypes
     /\ FirstPartFails(world, query, phase = "eval_defns"))
        => EndedInError(out.eval)

C7_Witness ==
    /\ phase = "eval_cplns"
    /\ query.type = "object-members"
    /\ query.expr = <<"z", ".", "m">>
    /\ FirstPartFails(world, query, FALSE)
    /\ out.eval.exc = "CodeIntelError"

-----------------------------------------------------------------------------
(* The life of one request: async_eval_at_trg (lang_ecma.py) hands the     *)
(* trigger to an evaluator, the evaluator reports through the controller.  *)
(* ctl is [calls, evalr, raised, aborted]: the calls made on the           *)
(* controller in order, the evaluator handed to mgr.request_eval and not   *)
(* yet run, the exception that left async_eval_at_trg or the evaluator,    *)
(* and whether the request was aborted.                                    *)

TRG_FORM_CPLN == "cpln"

TRG_FORM_CALLTIP == "calltip"

TRG_FORM_DEFN == "defn"

\* The trigger types async_eval_at_trg names, and one it does not name.
DispatchedTypes ==
    {"jsdoc-tags", "object-members", "object-properties", "call-signature",
     "literal-members", "local-symbols", "available-exceptions",
     "available-imports", "module-members"}

AllTrgTypes == DispatchedTypes \cup {"array-members"}

\* A trigger: citdl_ok tells whether citdl_expr_from_trg finds an
\* expression before the trigger position, calltip whether the jsdoc tag
\* before the position has a calltip, imports what the libraries of the
\* buffer hold for the import prefix ("raise": the lookup raises).
Triggers ==
    [form : {TRG_FORM_CPLN, TRG_FORM_CALLTIP, TRG_FORM_DEFN},
     type : AllTrgTypes,
     citdl_ok : BOOLEAN,
     calltip : BOOLEAN,
     imports : {"none", "some", "raise"}]

NewCtlr == [calls |-> <<>>, evalr |-> "", raised |-> "", aborted |-> FALSE]

Called(k, name) == [k EXCEPT !.calls = Append(@, name)]

\* mgr.request_eval(evalr): the evaluator is queued, its eval runs later.
request_eval(k, evalr) == [k EXCEPT !.evalr = evalr]

\* The types for which async_eval_at_trg computes a CITDL expression.
ExprTypes ==
    {"object-members", "object-properties", "call-signature",
     "literal-members"}

\* async_eval_at_trg after ctlr.start(buf, trg).
Dispatch(k, t) ==
    IF t.form = TRG_FORM_CPLN /\ t.type = "jsdoc-tags"
    THEN Called(Called(k, "set_cplns"), "done")
    ELSE IF t.form = TRG_FORM_CALLTIP /\ t.type = "jsdoc-tags"
    THEN Called(IF t.calltip THEN Called(k, "set_calltips") ELSE k, "done")
    ELSE IF t.type \in ExprTypes \/ t.form = TRG_FORM_DEFN
    THEN IF t.type # "literal-members" /\ ~t.citdl_ok
         THEN Called(Called(k, "error"), "done")
         ELSE request_eval(k, "tree")
    ELSE IF t.form = TRG_FORM_CPLN /\ t.type = "local-symbols"
    THEN request_eval(k, "tree")
    ELSE IF t.type = "available-exceptions"
    THEN request_eval(k, "tree")
    ELSE IF t.type \in {"available-imports", "module-members"}
    THEN request_eval(k, "imports")
    ELSE [k EXCEPT !.raised = "NotImplementedError"]

async_eval_at_trg(k, t) == Dispatch(Called(k, "start"), t)

\* Whether the tree evaluator was given an expression: the branches for
\* local-symbols and available-exceptions pass None.
HasExpr(t) == t.type \in ExprTypes \/ t.form = TRG_FORM_DEFN

\* The function TreeEvaluator.eval calls for the form of the trigger.
EvalFn(t) ==
    CASE t.form = TRG_FORM_CPLN -> "eval_cplns"
      [] t.form = TRG_FORM_CALLTIP -> "eval_calltips"
      [] t.form = TRG_FORM_DEFN -> "eval_defns"

\* What eval_cplns, eval_calltips or eval_defns ends with for the trigger.
\* Without an expression only the available-exceptions completions need
\* none: name.startswith(None) and tokenize_re.finditer(None) raise.
EvalOutcome(w, q, t) ==
    IF ~HasExpr(t)
    THEN IF t.form = TRG_FORM_CPLN /\ t.type = "available-exceptions"
         THEN [NoOutcome EXCEPT !.done = TRUE,
                                !.list = base_exception_class_completions]
         ELSE [NoOutcome EXCEPT !.done = TRUE, !.exc = "TypeError"]
    ELSE Outcome(Finish(w, EvalFrame(EvalFn(t), t.type, q.expr,
                                     get_start_scoperef(w, q),
                                     t.form = TRG_FORM_DEFN),
                        NewSt))

\* The call that hands the result of a form to the controller.
SetCall(t) ==
    CASE t.form = TRG_FORM_CPLN -> "set_cplns"
      [] t.form = TRG_FORM_CALLTIP -> "set_calltips"
      [] t.form = TRG_FORM_DEFN -> "set_defns"

\* TreeEvaluator.eval: an aborted request is done at once; the result is
\* handed over when there is one and the request is done; a CodeIntelError
\* is reported and the request is done with an error; any other exception
\* ends the request as well.
TreeEvaluator_eval(k, o, t) ==
    IF k.aborted THEN Called(k, "done")
    ELSE IF o.exc = ""
    THEN Called(IF o.members # {} \/ o.list # <<>>
                THEN Called(k, SetCall(t)) ELSE k, "done")
    ELSE IF IsCodeIntelError(o.exc)
    THEN Called(Called(k, "error"), "done")
    ELSE Called(k, "done")

\* ECMAScriptImportsEvaluator.eval: try ... finally: self.ctlr.done.
ECMAScriptImportsEvaluator_eval(k, t) ==
    CASE t.imports = "some" -> Called(Called(k, "set_cplns"), "done")
      [] t.imports = "none" -> Called(k, "done")
      [] t.imports = "raise" -> [Called(k, "done") EXCEPT !.raised = "Exception"]

\* The worlds and expressions requests are made in.
CtlrWorlds == {w \in CallWorlds : Len(w.el) = 8}

CtlrQueries ==
    {[expr |-> e, path |-> <<>>, defn |-> FALSE] :
        e \in {Str("z"), Str("a"), <<"h", "(", "a", ")">>}}

InitCtlr ==
    /\ world \in CtlrWorlds
    /\ query \in CtlrQueries
    /\ trg \in Triggers
    /\ ctl = NewCtlr
    /\ phase = "created"
    /\ out = NoOut
    /\ scan = 0

\* The language service is asked to evaluate the trigger.
AsyncEvalAtTrg ==
    /\ phase = "created"
    /\ ctl' = async_eval_at_trg(ctl, trg)
    /\ phase' = "dispatched"
    /\ UNCHANGED <<world, query, out, trg, scan>>

\* ctlr.abort(): the request is cancelled.
Abort ==
    /\ ~ctl.aborted
    /\ ctl' = [ctl EXCEPT !.aborted = TRUE]
    /\ UNCHANGED <<world, query, phase, out, trg, scan>>

\* The queued tree evaluator runs.
TreeEval ==
    /\ phase = "dispatched"
    /\ ctl.evalr = "tree"
    /\ \E o \in {EvalOutcome(world, query, trg)} :
          /\ out' = [out EXCEPT !.eval = IF ctl.aborted THEN NoOutcome ELSE o]
          /\ ctl' = TreeEvaluator_eval([ctl EXCEPT !.evalr = ""], o, trg)
    /\ phase' = "evaluated"
    /\ UNCHANGED <<world, query, trg, scan>>

\* The queued imports evaluator runs.
ImportsEval ==
    /\ phase = "dispatched"
    /\ ctl.evalr = "imports"
    /\ ctl' = ECMAScriptImportsEvaluator_eval([ctl EXCEPT !.evalr = ""], trg)
    /\ phase' = "evaluated"
    /\ UNCHANGED <<world, query, out, trg, scan>>

NextCtlr == AsyncEvalAtTrg \/ TreeEval \/ ImportsEval \/ Abort

SpecCtlr == InitCtlr /\ [][NextCtlr]_vars

-----------------------------------------------------------------------------
(* C8: the life of a request                                               *)

CallsOf(name) == {i \in DOMAIN ctl.calls : ctl.calls[i] = name}

\* async_eval_at_trg has returned or raised and no evaluator is waiting.
Settled == phase # "created" /\ ctl.evalr = ""

\* The calls on the controller are in the order of the life of a request:
\* start first and once, done at most once, nothing after done.
OrderedCalls ==
    /\ ctl.calls # <<>> => ctl.calls[1] = "start"
    /\ Cardinality(CallsOf("start")) <= 1
    /\ Cardinality(CallsOf("done")) <= 1
    /\ \A i \in CallsOf("done") : i = Len(ctl.calls)

\* C8: a request is started, then done, exactly once each, in that order;
\* whatever the type of the trigger, a started request is done once no
\* handler and no evaluator is left to run, and nothing is reported after
\* done.
C8_StartedRequestIsDoneOnce ==
    /\ OrderedCalls
    /\ (Settled /\ CallsOf("start") # {}) => Cardinality(CallsOf("done")) = 1

-----------------------------------------------------------------------------
(* The lazy directory scan of a library (database/langlibbase.py).         *)
(* scan is [cache, index, bad, loads, drops, th]: the set                  *)
(* _have_ensured_scanned_from_dir_cache, the res_index of each directory   *)
(* in the database, the files that cannot be read, how often each file     *)
(* was loaded and each path removed, and the frame of each thread that     *)
(* calls ensure_all_dirs_scanned or ensure_dir_scanned on the library.     *)

NumThreads == 2

\* self.dirs of the library.
LibDirs == <<"d1", "d2">>

\* _importables_from_dir: the files of each directory.
Importables(dir) == IF dir = "d1" THEN <<"x", "y">> ELSE <<"x">>

\* A res_index left by an earlier run: x is known, o is gone from disk.
StaleIndex == {"x", "o"}

\* The order in which a set of file names is iterated.
BaseOrder == <<"x", "y", "o">>

Range(s) == {s[i] : i \in DOMAIN s}

Without(s, xs) == SelectSeq(s, LAMBDA x : x \notin xs)

ScanPaths == {<<d, b>> : d \in Range(LibDirs), b \in Range(BaseOrder)}

\* A thread that has not called yet: it will call ensure_all_dirs_scanned
\* (all) or ensure_dir_scanned(dir), with a controller or with none.
ScanCall(all, dir, ctlr) ==
    [pc |-> "call", all |-> all, ctlr |-> ctlr, dir |-> dir,
     dirs |-> <<>>, scanned |-> {}, res_index |-> {},
     values |-> <<>>, removed |-> <<>>]

ScanCalls ==
    {ScanCall(TRUE, "", k) : k \in BOOLEAN} \cup
    {ScanCall(FALSE, d, k) : d \in Range(LibDirs), k \in BOOLEAN}

\* ctlr and ctlr.is_aborted(), lines 52-53, 90 and 115.
Polled(f, k) == f.ctlr /\ k.aborted

\* ensure_dir_scanned returns: to the loop of ensure_all_dirs_scanned,
\* line 65, or to the caller.
DirReturn(f) ==
    IF f.all THEN [f EXCEPT !.pc = "loop", !.scanned = @ \cup {f.dir}]
    ELSE [f EXCEPT !.pc = "end"]

\* ensure_all_dirs_scanned, lines 31-49: the directories not yet in the
\* cache; ensure_dir_scanned is entered at its check.
ScanStart(s, f) ==
    IF f.all
    THEN LET dirs == Without(LibDirs, s.cache)
         IN  IF dirs = <<>> THEN [f EXCEPT !.pc = "end"]
             ELSE [f EXCEPT !.pc = "loop", !.dirs = dirs]
    ELSE [f EXCEPT !.pc = "check"]

\* for dir in dirs, lines 51-64.
ScanLoop(f, k) ==
    IF f.dirs = <<>> \/ Polled(f, k) THEN [f EXCEPT !.pc = "end"]
    ELSE [f EXCEPT !.pc = "check", !.dir = Head(f.dirs), !.dirs = Tail(f.dirs)]

\* ensure_dir_scanned, lines 79-88.
ScanCheck(s, f) ==
    IF f.dir \in s.cache THEN DirReturn(f)
    ELSE [f EXCEPT !.pc = "files",
                   !.res_index = s.index[f.dir],
                   !.values = Importables(f.dir),
                   !.removed = SelectSeq(BaseOrder, LAMBDA b :
                                   b \in s.index[f.dir] \ Range(Importables(f.dir)))]

\* for base in importable_values, lines 89-111: the library after the
\* step and the frame of the thread.  A file that is not in res_index is
\* loaded and scanned, which enters it in the index of the directory.
ScanFile(s, f, k) ==
    IF f.values = <<>> THEN [s |-> s, f |-> [f EXCEPT !.pc = "removed"]]
    ELSE IF Polled(f, k) THEN [s |-> s, f |-> DirReturn(f)]
    ELSE LET base == Head(f.values)
             g == [f EXCEPT !.values = Tail(f.values)]
         IN  IF base \in f.res_index \/ base \in s.bad
             THEN [s |-> s, f |-> g]
             ELSE [s |-> [s EXCEPT !.loads[<<f.dir, base>>] = @ + 1,
                                   !.index[f.dir] = @ \cup {base}],
                   f |-> g]

\* The removal loop as it would be if a scan that is aborted entered its
\* directory in the cache all the same.
ScanRemovedMarksAborted(s, f, k) ==
    IF f.removed = <<>> \/ Polled(f, k)
    THEN [s |-> [s EXCEPT !.cache = @ \cup {f.dir}], f |-> DirReturn(f)]
    ELSE LET base == Head(f.removed)
         IN  [s |-> [s EXCEPT !.drops[<<f.dir, base>>] = @ + 1,
                              !.index[f.dir] = @ \ {base}],
              f |-> [f EXCEPT !.removed = Tail(f.removed)]]

\* for base in removed_values, lines 114-130.
ScanRemoved(s, f, k) ==
    IF f.removed = <<>>
    THEN [s |-> [s EXCEPT !.cache = @ \cup {f.dir}], f |-> DirReturn(f)]
    ELSE IF Polled(f, k) THEN [s |-> s, f |-> DirReturn(f)]
    ELSE LET base == Head(f.removed)
         IN  [s |-> [s EXCEPT !.drops[<<f.dir, base>>] = @ + 1,
                              !.index[f.dir] = @ \ {base}],
              f |-> [f EXCEPT !.removed = Tail(f.removed)]]

\* One step of a thread in the library.
ScanStep(s, f, k) ==
    CASE f.pc = "call" -> [s |-> s, f |-> ScanStart(s, f)]
      [] f.pc = "loop" -> [s |-> s, f |-> ScanLoop(f, k)]
      [] f.pc = "check" -> [s |-> s, f |-> ScanCheck(s, f)]
      [] f.pc = "files" -> ScanFile(s, f, k)
      [] f.pc = "removed" -> ScanRemoved(s, f, k)

\* The library after construction (line 22), over a database that is new
\* or holds the index of an earlier run, with threads about to call.
NewScan(n) ==
    {[cache |-> {}, index |-> [d \in Range(LibDirs) |-> idx], bad |-> bad,
      loads |-> [p \in ScanPaths |-> 0], drops |-> [p \in ScanPaths |-> 0],
      th |-> th] :
        idx \in {{}, StaleIndex}, bad \in {{}, {"y"}},
        th \in [1..n -> ScanCalls]}

\* A thread at pc takes its step in the library.
ScanAt(pc) ==
    /\ phase = "scanning"
    /\ \E t \in DOMAIN scan.th :
        /\ scan.th[t].pc = pc
        /\ \E r \in {ScanStep(scan, scan.th[t], ctl)} :
              scan' = [r.s EXCEPT !.th[t] = r.f]
    /\ UNCHANGED <<world, query, phase, out, ctl, trg>>

\* ensure_all_dirs_scanned or ensure_dir_scanned is called.
EnsureScanned == ScanAt("call")

\* The loop of ensure_all_dirs_scanned goes to its next directory.
NextDir == ScanAt("loop")

\* ensure_dir_scanned looks the directory up in the cache.
CheckDir == ScanAt("check")

\* ensure_dir_scanned goes to the next file of the directory.
LoadFile == ScanAt("files")

\* ensure_dir_scanned goes to the next path to remove, or is through.
RemovePath == ScanAt("removed")

ScanNext == EnsureScanned \/ NextDir \/ CheckDir \/ LoadFile \/ RemovePath

\* Threads call into one library at the same time.
InitScan ==
    /\ phase = "scanning"
    /\ scan \in NewScan(NumThreads)
    /\ ctl = NewCtlr
    /\ world = 0 /\ query = 0 /\ trg = 0
    /\ out = NoOut

NextScan == ScanNext \/ Abort

SpecScan == InitScan /\ [][NextScan]_vars

\* One step of the resolver of a request.
ResolverStep ==
    /\ phase = "resolving"
    /\ ~Halted(out)
    /\ out' = Step(world, out)
    /\ UNCHANGED <<world, query, phase, ctl, trg, scan>>

\* A request that may be aborted: its evaluator resolves an expression,
\* or the library it asks for a module scans its directories.
InitAbort ==
    /\ ctl = NewCtlr
    /\ trg = 0
    /\ \/ /\ phase = "resolving"
          /\ world \in CtlrWorlds
          /\ query \in CtlrQueries
          /\ out = Call(CitdlFrame(query.expr, get_start_scoperef(world, query),
                                   0, query.defn), NewSt)
          /\ scan = 0
       \/ /\ phase = "scanning"
          /\ world = 0 /\ query = 0
          /\ out = NoOut
          /\ scan \in NewScan(1)

NextAbort == ResolverStep \/ ScanNext \/ Abort

SpecAbort == InitAbort /\ [][NextAbort]_vars

-----------------------------------------------------------------------------
(* C9: an aborted request unwinds                                          *)

\* The resolver calls one more of its resolution functions.
ResolutionStarts ==
    phase = "resolving" /\ Len(out'.stk) > Len(out.stk)

\* ensure_all_dirs_scanned, called with the controller, turns to one more
\* directory.
DirScanStarts ==
    /\ phase = "scanning"
    /\ \E t \in DOMAIN scan.th :
        scan.th[t].ctlr /\ scan.th[t].pc = "loop" /\ scan'.th[t].pc = "check"

\* ensure_dir_scanned, called with the controller, loads one more file.
FileLoads ==
    /\ phase = "scanning"
    /\ \E t \in DOMAIN scan.th :
        /\ scan.th[t].ctlr /\ scan.th[t].pc = "files"
        /\ scan'.th[t] # scan.th[t]
        /\ scan'.loads # scan.loads

\* C9: once is_aborted() of the controller of a request is true, the
\* resolver starts no further resolution step, ensure_all_dirs_scanned
\* starts no further directory scan and ensure_dir_scanned loads no further
\* file.
C9_AbortedRequestUnwinds ==
    [][ctl.aborted => ~(ResolutionStarts \/ DirScanStarts \/ FileLoads)]_vars

-----------------------------------------------------------------------------
(* C10: a directory is populated at most once                              *)

\* The threads between the check of the cache for a directory and the
\* entry of the directory into the cache.
InDirScan(dir) ==
    {t \in DOMAIN scan.th :
        scan.th[t].pc \in {"files", "removed"} /\ scan.th[t].dir = dir}

\* C10: when threads call ensure_dir_scanned or ensure_all_dirs_scanned on
\* one library at the same time, no file of a directory is loaded and no
\* path removed more than once, and no two threads are between the check
\* and the update of _have_ensured_scanned_from_dir_cache for one
\* directory.
C10_DirPopulatedAtMostOnce ==
    /\ \A p \in ScanPaths : scan.loads[p] <= 1 /\ scan.drops[p] <= 1
    /\ \A d \in Range(LibDirs) : Cardinality(InDirScan(d)) <= 1

-----------------------------------------------------------------------------
(* C11: the built-in blob over several requests                            *)

\* A second request: a new evaluator resolves the expression of the query.
\* Its _built_in_blob starts as the class attribute None.
ResolveAnew ==
    /\ phase = "resolved"
    /\ \E c \in {Finish(world, CitdlFrame(query.expr,
                                           get_start_scoperef(world, query),
                                           0, query.defn), NewSt)} :
          out' = [out EXCEPT !.second = Outcome(c), !.st2 = c.st]
    /\ phase' = "anew"
    /\ UNCHANGED <<world, query, ctl, trg, scan>>

InitBlob == InitOf(CallWorlds)

NextBlob == Resolve \/ ResolveAnew

SpecBlob == InitBlob /\ [][NextBlob]_vars

\* C11: over the requests of a process stdlib.get_blob("*") is called at
\* most once, and the requests that use the built-in blob use the same one.
C11_BuiltInBlobLoadedOnce ==
    /\ out.st.loads + out.st2.loads <= 1
    /\ (out.st.bib # 0 /\ out.st2.bib # 0) => out.st.bib = out.st2.bib

-----------------------------------------------------------------------------
(* C12: errors that no fallback boundary may catch                         *)

\* A class C that extends B and A or A alone, a scope B that is a class or
\* of a kind the resolver does not implement and that may extend C, a class
\* A with a member s, and a variable x with a member t whose citdl names a
\* member of B or the class A.
ClassEscalateWorlds ==
    {MkWorld("escalate",
             <<[Scope("class", Str("C"), 1) EXCEPT !.refs = rc],
               [Scope(ib, Str("B"), 1) EXCEPT !.refs = rb],
               Scope("class", Str("A"), 1),
               Variable(Str("s"), 7, Str("N")),
               Variable(Str("x"), 1, cx),
               Variable(Str("t"), 9, Str("N"))>>,
             {}, {}) :
        rc \in {<<Str("B"), Str("A")>>, <<Str("A")>>},
        ib \in {"class", "namespace"},
        rb \in {<<>>, <<Str("C")>>},
        cx \in {<<"B", ".", "s">>, Str("A")}}

\* The buffer imports every name of the module k, and k imports every name
\* or the name y from itself.
ImportEscalateWorlds ==
    {MkWorld("escalate",
             <<Blob(Str("k"), Append(DirT, Str("k"))),
               Import(1, Str("k"), Str("*"), <<>>),
               Import(5, Str("k"), sym, <<>>)>>,
             {[dir |-> DirT, mod |-> Str("k"), blob |-> 5]}, {}) :
        sym \in {Str("*"), Str("y")}}

EscalateWorlds == ClassEscalateWorlds \cup ImportEscalateWorlds

EscalateQueries ==
    {[expr |-> e, path |-> p, defn |-> d, type |-> "object-members"] :
        e \in {<<"C", ".", "s">>, <<"C", ".", "z">>, Str("C"), Str("y")},
        p \in {<<>>, <<Str("x")>>},
        d \in BOOLEAN}

\* eval_cplns or eval_defns of a request has been entered.
InitEscalate ==
    /\ world \in EscalateWorlds
    /\ query \in EscalateQueries
    /\ phase = "resolving"
    /\ out = Call(EvalFrame(IF query.defn THEN "eval_defns" ELSE "eval_cplns",
                            query.type, query.expr,
                            get_start_scoperef(world, query), query.defn),
                  NewSt)
    /\ ctl = 0 /\ trg = 0 /\ scan = 0

NextEscalate == ResolverStep

SpecEscalate == InitEscalate /\ [][NextEscalate]_vars

\* The cycle error and the error for an element kind that is not
\* implemented.
Escalating == {"EvalError", "NotImplementedError"}

\* A frame of the run waits in a try block with an `except CodeIntelError`.
InsideFallback(c) ==
    \E i \in 1..Len(c.stk) : HandlerPc(c.stk[i], "CodeIntelError") # ""

-----------------------------------------------------------------------------
(* C13: an import whose module no library can load                         *)

\* The shapes of an <import> that _hit_from_elem_imports tells apart.
MissingShapes == {"wildcard", "named", "aliased", "segments", "partial"}

\* The <import> of each shape, in the scope at, for the expression u.v; no
\* library holds a module q, u/v or u.
MissingImport(shape, at) ==
    CASE shape = "wildcard" -> Import(at, Str("q"), Str("*"), <<>>)
      [] shape = "named" -> Import(at, Str("q"), Str("u"), <<>>)
      [] shape = "aliased" -> Import(at, Str("q"), Str("z"), Str("u"))
      [] shape = "segments" -> Import(at, <<"u", "/", "v">>, <<>>, <<>>)
      [] shape = "partial" -> Import(at, <<"u", "/", "w">>, <<>>, <<>>)

\* A function g in the buffer; the scope at (the buffer or g) holds the
\* import of a missing module.  A class u with a member v is there to be
\* found: in the module k that the next import of the same scope brings
\* in, or in the buffer, the scope that encloses g.
MissingWorlds ==
    {MkWorld(shape,
             <<Scope("function", Str("g"), 1),                      \* 5
               Blob(Str("k"), Append(DirT, Str("k"))),              \* 6
               Scope("class", Str("u"), IF p.alt = "import" THEN 6 ELSE 1),
               Variable(Str("v"), 7, Str("N")),                     \* 8
               MissingImport(shape, p.at)>>                         \* 9
                 \o (IF p.alt = "import"
                     THEN <<Import(p.at, Str("k"), Str("*"), <<>>)>>
                     ELSE <<>>),
             {[dir |-> DirT, mod |-> Str("k"), blob |-> 6]}, {}) :
        shape \in MissingShapes,
        p \in {[alt |-> "import", at |-> 1], [alt |-> "import", at |-> 5],
               [alt |-> "outer", at |-> 5]}}

MissingQueries ==
    {[expr |-> <<"u", ".", "v">>, path |-> <<Str("g")>>, defn |-> d,
      type |-> "object-members"] : d \in BOOLEAN}

\* _hit_from_citdl of a request has been entered.
InitMissing ==
    /\ world \in MissingWorlds
    /\ query \in MissingQueries
    /\ phase = "resolving"
    /\ out = Call(CitdlFrame(query.expr, get_start_scoperef(world, query), 0,
                             query.defn), NewSt)
    /\ ctl = 0 /\ trg = 0 /\ scan = 0

NextMissing == ResolverStep

SpecMissing == InitMissing /\ [][NextMissing]_vars

\* C13: an import of a module that no library can load, of whatever shape,
\* is passed over: the resolution goes on to the next import of the scope
\* and to the enclosing scopes, and so ends with the hit that is there to
\* be found.
C13_MissingImportPassedOver ==
    (phase = "resolving" /\ Halted(out)) =>
        (out.exc = "" /\ out.ret.hit # NoHit)

-----------------------------------------------------------------------------
(* C14, C15, C16: the tokenizer on its own                                 *)

\* Expressions: every string of at most MaxExprLen atoms over a name
\* character, the dot and the two parentheses.
MaxExprLen == 6

ExprAtoms == {"a", ".", "(", ")"}

ExprStrings == UNION {[1..n -> ExprAtoms] : n \in 0..MaxExprLen}

\* str.lstrip('.')
RECURSIVE LStripDots(_)
LStripDots(s) ==
    IF s # <<>> /\ s[1] = "." THEN LStripDots(Tail(s)) ELSE s

\* ECMAScriptLangIntel.citdl_expr_from_trg: the expression before the
\* trigger, without its leading dots.
citdl_expr_from_trg(expr) == LStripDots(expr)

NoTokens == [expr |-> <<>>, tokens |-> <<>>, joined |-> <<>>, again |-> <<>>]

InitTokens ==
    /\ query \in {[expr |-> e] : e \in ExprStrings}
    /\ phase = "ready"
    /\ out = [NoTokens EXCEPT !.expr = query.expr]
    /\ world = 0 /\ ctl = 0 /\ trg = 0 /\ scan = 0

\* The expression comes from a trigger.
CitdlExprFromTrg ==
    /\ phase = "ready"
    /\ out' = [out EXCEPT !.expr = citdl_expr_from_trg(query.expr)]
    /\ phase' = "extracted"
    /\ UNCHANGED <<world, query, ctl, trg, scan>>

\* list(self._tokenize_citdl_expr(expr)), for the expression of a trigger
\* or for a citdl of the tree as it is.
Tokenize ==
    /\ phase \in {"ready", "extracted"}
    /\ out' = [out EXCEPT !.tokens = _tokenize_citdl_expr(out.expr)]
    /\ phase' = "tokenized"
    /\ UNCHANGED <<world, query, ctl, trg, scan>>

\* The tokens are joined and the result is tokenized.
Rejoin ==
    /\ phase = "tokenized"
    /\ \E j \in {_join_citdl_expr(out.tokens)} :
          out' = [out EXCEPT !.joined = j, !.again = _tokenize_citdl_expr(j)]
    /\ phase' = "rejoined"
    /\ UNCHANGED <<world, query, ctl, trg, scan>>

NextTokens == CitdlExprFromTrg \/ Tokenize \/ Rejoin

SpecTokens == InitTokens /\ [][NextTokens]_vars

\* The number of parentheses open after the first i atoms of s.
RECURSIVE DepthAt(_, _)
DepthAt(s, i) ==
    IF i = 0 THEN 0
    ELSE DepthAt(s, i - 1) + (CASE s[i] = "(" -> 1 [] s[i] = ")" -> -1
                                [] OTHER -> 0)

Balanced(s) ==
    /\ \A i \in 1..Len(s) : DepthAt(s, i) >= 0
    /\ DepthAt(s, Len(s)) = 0

\* s without its dots outside every parenthesis.
RECURSIVE StripTopDotsFrom(_, _)
StripTopDotsFrom(s, i) ==
    IF i > Len(s) THEN <<>>
    ELSE (IF s[i] = "." /\ DepthAt(s, i) = 0 THEN <<>> ELSE <<s[i]>>)
             \o StripTopDotsFrom(s, i + 1)

StripTopDots(s) == StripTopDotsFrom(s, 1)

IsIdentifier(t) == t # <<>> /\ \A i \in 1..Len(t) : ~IsSpecial(t[i])

\* t runs from a "(" to the ")" that closes it.
IsCallToken(t) ==
    /\ Len(t) >= 2 /\ t[1] = "(" /\ t[Len(t)] = ")"
    /\ DepthAt(t, Len(t)) = 0
    /\ \A i \in 1..(Len(t) - 1) : DepthAt(t, i) > 0

Tokenized == phase \in {"tokenized", "rejoined"}

\* C14: the tokens of an expression with balanced parentheses are, in
\* order, identifiers (not empty, without dot or parenthesis) and whole
\* call-tokens (from a "(" to its matching ")", with what lies between),
\* and together they are the expression without its dots at depth 0.
C14_TokensAreWholeParts ==
    (Tokenized /\ Balanced(out.expr)) =>
        /\ \A i \in 1..Len(out.tokens) :
              IsIdentifier(out.tokens[i]) \/ IsCallToken(out.tokens[i])
        /\ JoinWith(out.tokens, <<>>) = StripTopDots(out.expr)

\* An identifier, a dot at depth 0 and a call-token that holds a dot or a
\* nested call.
C14_Witness ==
    /\ Tokenized /\ Balanced(out.expr)
    /\ \E i \in 1..Len(out.expr) : out.expr[i] = "." /\ DepthAt(out.expr, i) = 0
    /\ \E i \in 1..Len(out.tokens) : IsIdentifier(out.tokens[i])
    /\ \E i \in 1..Len(out.tokens) :
          /\ IsCallToken(out.tokens[i])
          /\ \E k \in 2..Len(out.tokens[i]) : out.tokens[i][k] \in {".", "("}

\* C15: the tokens of an expression with balanced parentheses, joined and
\* tokenized again, are the same tokens.
C15_RoundTrip ==
    (phase = "rejoined" /\ Balanced(out.expr)) => out.again = out.tokens

\* Several tokens, a call-token among them, and a joined string that is
\* not the expression.
C15_Witness ==
    /\ phase = "rejoined" /\ Balanced(out.expr)
    /\ Len(out.tokens) >= 2
    /\ \E i \in 1..Len(out.tokens) : IsCallToken(out.tokens[i])
    /\ out.joined # out.expr

\* The tokenizer was handed an expression that begins with a dot.
LeadingDot == Tokenized /\ out.expr # <<>> /\ out.expr[1] = "."

\* C16: for an expression that begins with a dot the tokenizer yields no
\* empty token: the leading dot yields nothing, and the tokens are those of
\* the expression without it, whether or not the caller has stripped the
\* dot beforehand.
C16_LeadingDotYieldsNothing ==
    (Tokenized /\ query.expr # <<>> /\ query.expr[1] = ".") =>
        /\ \A i \in 1..Len(out.tokens) : out.tokens[i] # <<>>
        /\ out.tokens = _tokenize_citdl_expr(Tail(query.expr))

C16_Witness == LeadingDot /\ out.tokens # <<>>

\* C16 as stated: the first token for an expression that begins with a dot
\* is the empty string, followed by the tokens of the rest.
C16_AsStated ==
    LeadingDot =>
        /\ out.tokens # <<>> /\ out.tokens[1] = <<>>
        /\ Tail(out.tokens) = _tokenize_citdl_expr(Tail(out.expr))

-----------------------------------------------------------------------------
(* C17: the completion lists                                               *)

\* str.upper() of one character.
Upper(ch) ==
    IF CodePoint(ch) >= CodePoint("a") /\ CodePoint(ch) <= CodePoint("z")
    THEN Alphabet[CodePoint(ch) - CodePoint("a") + CodePoint("A")]
    ELSE ch

UpperChars(s) == [i \in 1..Len(s) |-> Upper(s[i])]

\* cplns.sort(key=lambda i: i[1]): the stable sort by the name as it is.
SortCased(cplns) == SortByName(cplns, <<>>)

\* cplns.sort(key=lambda i: i[1].upper()): a stable insertion sort.
RECURSIVE InsertByUpper(_, _)
InsertByUpper(sorted, x) ==
    IF sorted = <<>> THEN <<x>>
    ELSE IF CharsLess(UpperChars(Chars(x.name)),
                      UpperChars(Chars(sorted[1].name)))
         THEN <<x>> \o sorted
         ELSE <<sorted[1]>> \o InsertByUpper(Tail(sorted), x)

RECURSIVE SortUpperAcc(_, _)
SortUpperAcc(list, acc) ==
    IF list = <<>> THEN acc
    ELSE SortUpperAcc(Tail(list), InsertByUpper(acc, list[1]))

SortByUpper(cplns) == SortUpperAcc(cplns, <<>>)

\* list(s) for a set s: the elements in an order the hashes decide.
RECURSIVE ListsOf(_)
ListsOf(s) ==
    IF s = {} THEN {<<>>}
    ELSE UNION {{<<x>> \o p : p \in ListsOf(s \ {x})} : x \in s}

\* lib.get_blob_imports(imp_prefix): what the database holds for the
\* prefix in the directory of the library, given with the request.
get_blob_imports(q, lib) ==
    IF lib.dirs[1] = DirT THEN q.imports[1]
    ELSE IF lib.dirs[1] = DirS THEN q.imports[2]
    ELSE {}

\* ECMAScriptImportsEvaluator._members_from_elem
ImportsMembersFromElem(w, id) ==
    LET e == w.el[id]
        blob == import_blob_name(w, e.module, PlainLibs(w.buflibs))
        shown == IF e.alias # <<>> THEN e.alias ELSE e.symbol
    IN  IF e.tag # "import"
        THEN [ok |-> TRUE, members |-> {Member(KindOf(w, id), e.name)}]
        ELSE IF e.symbol = <<>>
        THEN [ok |-> TRUE,
              members |-> {Member("module", IF e.alias # <<>> THEN e.alias
                                            ELSE Split(e.module, ".")[1])}]
        ELSE IF blob = 0
        THEN [ok |-> FALSE, members |-> {}]
        ELSE IF e.symbol = <<"*">>
        THEN [ok |-> TRUE,
              members |-> {Member(KindOf(w, NamesGet(w, blob, n)), n) :
                              n \in NamesOf(w, blob)}]
        ELSE IF InNames(w, blob, e.symbol)
        THEN [ok |-> TRUE,
              members |-> {Member(KindOf(w, NamesGet(w, blob, e.symbol)), shown)}]
        ELSE [ok |-> TRUE, members |-> {Member("unknown", shown)}]

\* ECMAScriptImportsEvaluator.eval, lines 126-149: what one library adds.
ImportsOfLib(w, q, lib, imp_prefix) ==
    LET dotted_prefix == JoinWith(imp_prefix, <<".">>)
        blob == get_blob(w, lib, dotted_prefix)
    IN  {Member(IF i.dir THEN "directory" ELSE "module", i.name) :
            i \in get_blob_imports(q, lib)}
        \cup
        (IF q.type = "module-members" /\ has_blob(w, lib, dotted_prefix)
         THEN {Member(KindOf(w, NamesGet(w, blob, n)), n) : n \in NamesOf(w, blob)}
              \cup UNION {ImportsMembersFromElem(w, Children(w, blob)[k]).members :
                             k \in {k \in DOMAIN Children(w, blob) :
                                       "__hidden__" \notin
                                           w.el[Children(w, blob)[k]].attrs}}
         ELSE {})

\* lines 125-151: the first library that adds anything.
RECURSIVE ImportsFirstLib(_, _, _, _)
ImportsFirstLib(w, q, seq, imp_prefix) ==
    IF seq = <<>> THEN {}
    ELSE IF ImportsOfLib(w, q, seq[1], imp_prefix) # {}
    THEN ImportsOfLib(w, q, seq[1], imp_prefix)
    ELSE ImportsFirstLib(w, q, Tail(seq), imp_prefix)

\* lines 107-112: the directory and the prefix of a relative import.
RECURSIVE ImportsClimb(_, _)
ImportsClimb(lookuppath, imp_prefix) ==
    IF imp_prefix # <<>> /\ imp_prefix[1] = <<>>
    THEN ImportsClimb(dirname(lookuppath), Tail(imp_prefix))
    ELSE [lookuppath |-> lookuppath, imp_prefix |-> imp_prefix]

\* ECMAScriptImportsEvaluator.eval: the completions before they are put in
\* order, as a set (lines 103-159).
ImportsCplns(w, q) ==
    IF q.imp_prefix # <<>>
    THEN IF q.imp_prefix[1] = <<>>
         THEN LET r == ImportsClimb(
                           w.bufpath,
                           IF q.imp_prefix[Len(q.imp_prefix)] = <<>>
                           THEN SubSeq(q.imp_prefix, 1, Len(q.imp_prefix) - 1)
                           ELSE q.imp_prefix)
              IN  ImportsFirstLib(w, q, <<get_lang_lib("curdirlib", r.lookuppath)>>,
                                  r.imp_prefix)
         ELSE ImportsFirstLib(
                  w, q, LibsOf(w, ECMAScriptImportLibGenerator(
                                      w.bufpath, q.imp_prefix, w.buflibs)),
                  q.imp_prefix)
    ELSE {Member(IF i.dir THEN "directory" ELSE "module", i.name) :
             i \in UNION {get_blob_imports(q, w.buflibs[k]) :
                             k \in DOMAIN w.buflibs}}

\* line 162: cplns.sort(key=lambda i: i[1].upper())
ImportsSort(cplns) == SortByUpper(cplns)

\* Names that differ in case and in their first letter.
CplnNames == {Str("a"), Str("B"), Str("c")}

\* A class K with the members n1 and n2, which may be one name declared
\* twice, and a variable n3 in the buffer;
\* a module k beside the buffer with a variable n1, a function n2 and an
\* import of the module j under the name n3.
CplnWorlds ==
    {MkWorld("cplns",
             <<Scope("class", Str("K"), 1),                         \* 5
               Variable(n1, 5, <<>>), Variable(n2, 5, <<>>),        \* 6, 7
               Variable(n3, 1, Str("K")),                           \* 8
               Blob(Str("k"), Append(DirT, Str("k"))),              \* 9
               Variable(n1, 9, <<>>),                               \* 10
               Scope("function", n2, 9),                            \* 11
               Import(9, Str("j"), <<>>, n3)>>,                     \* 12
             {[dir |-> DirT, mod |-> Str("k"), blob |-> 9]}, {}) :
        n1 \in CplnNames, n2 \in CplnNames, n3 \in CplnNames}

BlobImport(name, dir) == [name |-> name, dir |-> dir]

\* What the database may hold for a prefix in one directory.
BlobImportSets ==
    {{}, {BlobImport(Str("a"), FALSE), BlobImport(Str("B"), TRUE)},
     {BlobImport(Str("B"), FALSE), BlobImport(Str("b"), FALSE),
      BlobImport(Str("a"), TRUE)}}

NoImports == <<{}, {}>>

\* Requests for the symbols in scope, for the members of K, and for the
\* imports after `import` or after a prefix.
CplnQueries ==
    {[expr |-> e, path |-> p, defn |-> d, type |-> "local-symbols",
      imp_prefix |-> <<>>, imports |-> NoImports] :
        e \in {<<>>, Str("a")}, p \in {<<>>, <<Str("K")>>}, d \in BOOLEAN}
    \cup
    {[expr |-> Str("K"), path |-> <<>>, defn |-> FALSE,
      type |-> "object-members", imp_prefix |-> <<>>, imports |-> NoImports]}
    \cup
    {[expr |-> <<>>, path |-> <<>>, defn |-> FALSE, type |-> t,
      imp_prefix |-> ip, imports |-> <<i1, i2>>] :
        t \in {"available-imports", "module-members"},
        ip \in {<<>>, <<Str("k")>>, <<<<>>, Str("k")>>},
        i1 \in BlobImportSets, i2 \in BlobImportSets}

InitCplns ==
    /\ world \in CplnWorlds
    /\ query \in CplnQueries
    /\ phase = "ready"
    /\ out = NoOut
    /\ ctl = 0 /\ trg = 0 /\ scan = 0

\* eval_cplns of a new evaluator, for the symbols in scope or for the
\* members of an object: return list(self._members_from_hit(hit)).
EvalCplnsList ==
    /\ phase = "ready"
    /\ query.type \in {"local-symbols", "object-members"}
    /\ \E o \in {Outcome(Finish(world,
                                EvalFrame("eval_cplns", query.type, query.expr,
                                          get_start_scoperef(world, query),
                                          query.defn),
                                NewSt))} :
          \E l \in (IF query.type = "object-members" THEN ListsOf(o.members)
                    ELSE {o.list}) :
             out' = [out EXCEPT !.eval = [o EXCEPT !.list = l]]
    /\ phase' = "listed"
    /\ UNCHANGED <<world, query, ctl, trg, scan>>

\* ECMAScriptImportsEvaluator.eval: cplns = list(set(cplns)), then the
\* sort; the list is handed to the controller when it is not empty.
ImportsEvalList ==
    /\ phase = "ready"
    /\ query.type \in {"available-imports", "module-members"}
    /\ \E l \in ListsOf(ImportsCplns(world, query)) :
          out' = [out EXCEPT !.eval = [NoOutcome EXCEPT !.done = TRUE,
                                                        !.list = ImportsSort(l)]]
    /\ phase' = "listed"
    /\ UNCHANGED <<world, query, ctl, trg, scan>>

NextCplns == EvalCplnsList \/ ImportsEvalList

SpecCplns == InitCplns /\ [][NextCplns]_vars

NoDuplicates(list) ==
    \A i, j \in 1..Len(list) : i # j => list[i] # list[j]

\* No entry comes before one whose name is smaller when case is ignored.
OrderedUncased(list) ==
    \A i, j \in 1..Len(list) :
        i < j => ~CharsLess(UpperChars(Chars(list[j].name)),
                            UpperChars(Chars(list[i].name)))

\* No entry comes before one whose name is smaller as Python orders str.
OrderedCased(list) ==
    \A i, j \in 1..Len(list) :
        i < j => ~CharsLess(Chars(list[j].name), Chars(list[i].name))

\* C17: no completion list holds a (kind, name) pair twice; the list of
\* the imports evaluator is ordered by name with case ignored, the list of
\* the symbols in scope by name with case regarded.  (The members of an
\* object are returned in no order of their own.)
C17_ListsDedupedAndSorted ==
    phase = "listed" =>
        /\ NoDuplicates(out.eval.list)
        /\ query.type \in {"available-imports", "module-members"} =>
              OrderedUncased(out.eval.list)
        /\ query.type = "local-symbols" => OrderedCased(out.eval.list)

\* The imports evaluator has listed names that the two orders arrange
\* differently, after removing a pair it had collected twice.
C17_Witness ==
    /\ phase = "listed" /\ query.type = "module-members"
    /\ Len(out.eval.list) >= 3
    /\ ~OrderedCased(out.eval.list)
    /\ Cardinality(ImportsCplns(world, query)) = Len(out.eval.list)

\* C17 as stated: every list is without duplicates and ordered by name
\* with case ignored.
C17_AsStated ==
    phase = "listed" =>
        NoDuplicates(out.eval.list) /\ OrderedUncased(out.eval.list)

-----------------------------------------------------------------------------
(* C18: the variable at the end of the chain                               *)

Flags == {{}, {"__no_defn__"}}

\* Variables v and w and a class K with a member m in the buffer, and an
\* export i of the module k that the buffer imports by name; v is typed
\* by N or by w, the others by N, and each may be flagged __no_defn__.
TerminalWorlds ==
    {MkWorld("terminal",
             <<[Variable(Str("v"), 1, cv) EXCEPT !.attrs = fv],     \* 5
               [Variable(Str("w"), 1, Str("N")) EXCEPT !.attrs = fw],
               Scope("class", Str("K"), 1),                         \* 7
               [Variable(Str("m"), 7, Str("N")) EXCEPT !.attrs = fm],
               Blob(Str("k"), Append(DirT, Str("k"))),              \* 9
               Variable(<<"exports">>, 9, <<>>),                    \* 10
               [Variable(Str("i"), 10, Str("N")) EXCEPT !.attrs = fm],
               Import(1, Str("k"), Str("i"), <<>>)>>,               \* 12
             {[dir |-> DirT, mod |-> Str("k"), blob |-> 9]}, {}) :
        cv \in {Str("N"), Str("w")}, fv \in Flags, fw \in Flags, fm \in Flags}

TerminalQueries ==
    {[expr |-> e, path |-> <<>>, defn |-> d, type |-> "object-members"] :
        e \in {Str("v"), Str("w"), <<"K", ".", "m">>, Str("i")}, d \in BOOLEAN}

InitTerminal ==
    /\ world \in TerminalWorlds
    /\ query \in TerminalQueries
    /\ phase = "ready"
    /\ out = NoOut
    /\ ctl = 0 /\ trg = 0 /\ scan = 0

NextTerminal == Resolve

SpecTerminal == InitTerminal /\ [][NextTerminal]_vars

\* The element the tokens of the expression lead to: the variable named
\* last.
Terminal(q) ==
    CASE q.expr = Str("v") -> Raw(5)
      [] q.expr = Str("w") -> Raw(6)
      [] q.expr = <<"K", ".", "m">> -> Raw(8)
      [] q.expr = Str("i") -> Raw(11)

Succeeded == phase = "resolved" /\ out.first.exc = "" /\ out.first.hit # NoHit

\* C18: without the declaration-only flag a successful resolution never
\* returns a variable; with it, the variable at the end of the chain is
\* followed through its citdl exactly when it IS flagged __no_defn__, and
\* a variable that is not flagged is returned as it is.
C18_TerminalVariable ==
    Succeeded =>
        /\ ~query.defn => Tag(world, out.first.hit.elem) # "variable"
        /\ (query.defn /\ ~NoDefn(world, Terminal(query))) =>
              out.first.hit.elem = Terminal(query)
        /\ (query.defn /\ NoDefn(world, Terminal(query))) =>
              /\ out.first.hit.elem # Terminal(query)
              /\ Tag(world, out.first.hit.elem) = "variable" =>
                    ~NoDefn(world, out.first.hit.elem)

\* A declaration query that followed a flagged variable to another
\* variable, which is not flagged and is returned.
C18_Witness ==
    /\ Succeeded /\ query.defn /\ query.expr = Str("v")
    /\ NoDefn(world, Terminal(query))
    /\ out.first.hit.elem = Raw(6)

\* C18 as stated: with the declaration-only flag the variable at the end
\* of the chain is followed exactly when it is not flagged __no_defn__,
\* and a flagged one is returned as it is.
C18_AsStated ==
    Succeeded =>
        /\ ~query.defn => Tag(world, out.first.hit.elem) # "variable"
        /\ (query.defn /\ ~NoDefn(world, Terminal(query))) =>
              out.first.hit.elem # Terminal(query)
        /\ (query.defn /\ NoDefn(world, Terminal(query))) =>
              out.first.hit.elem = Terminal(query)

-----------------------------------------------------------------------------
(* C19: the directory of a relative import                                 *)

\* The buffer /t/f imports the module k (from ./u or from its own
\* directory) as X and the module ./j as Y; /t/j holds a variable z typed
\* by N.  A class C of the buffer extends Y, or X and then Y.  A file
\* /t/u/j with a variable z typed by O may exist as well.
RelativeWorlds ==
    {MkWorld("relative",
             <<[Scope("class", Str("C"), 1) EXCEPT !.refs = refs],  \* 5
               Blob(Str("k"), Append(k.dir, Str("k"))),             \* 6
               Blob(Str("j"), Append(DirT, Str("j"))),              \* 7
               Variable(Str("z"), 7, Str("N")),                     \* 8
               Import(1, k.module, <<>>, Str("X")),                 \* 9
               Import(1, <<".", "/", "j">>, <<>>, Str("Y"))>>       \* 10
                 \o (IF other
                     THEN <<Blob(Str("j"), Append(DirU, Str("j"))), \* 11
                            Variable(Str("z"), 11, Str("O"))>>
                     ELSE <<>>),
             {[dir |-> DirT, mod |-> k.mod, blob |-> 6],
              [dir |-> DirT, mod |-> Str("j"), blob |-> 7]}
                 \cup (IF other
                       THEN {[dir |-> DirU, mod |-> Str("j"), blob |-> 11]}
                       ELSE {}),
             {}) :
        refs \in {<<Str("Y")>>, <<Str("X"), Str("Y")>>},
        k \in {[module |-> <<".", "/", "u", "/", "k">>, dir |-> DirU,
                mod |-> <<"u", "/", "k">>],
               [module |-> <<".", "/", "k">>, dir |-> DirT, mod |-> Str("k")]},
        other \in BOOLEAN}

RelativeQueries ==
    {[expr |-> <<"C", ".", "z">>, path |-> <<>>, defn |-> d,
      type |-> "object-members"] : d \in BOOLEAN}

InitRelative ==
    /\ world \in RelativeWorlds
    /\ query \in RelativeQueries
    /\ phase = "resolving"
    /\ out = Call(CitdlFrame(query.expr, get_start_scoperef(world, query), 0,
                             query.defn), NewSt)
    /\ ctl = 0 /\ trg = 0 /\ scan = 0

NextRelative == ResolverStep

SpecRelative == InitRelative /\ [][NextRelative]_vars

\* C19: the relative import `./j` of the buffer /t/f is looked up in /t,
\* the directory of the buffer, whatever the request has imported before:
\* C.z is the z of /t/j (followed to its class N unless the declaration is
\* asked for).
C19_RelativeToOwnFile ==
    (phase = "resolving" /\ Halted(out)) =>
        /\ out.exc = ""
        /\ out.ret.hit.elem = (IF query.defn THEN Raw(8) ELSE Raw(3))

-----------------------------------------------------------------------------
(* C20: the partial match of multi-segment imports                         *)

\* Modules that the buffer may import: three below a, one elsewhere.
PartialModules ==
    {<<"a", "/", "b", "/", "c">>, <<"a", "/", "d">>,
     <<"a", "/", "b", "/", "e", "/", "g">>, <<"q", "/", "r">>}

\* Two or three of them in some order of declaration.
PartialImportLists ==
    {l \in UNION {[1..n -> PartialModules] : n \in 2..3} :
        /\ \A i, j \in DOMAIN l : i # j => l[i] # l[j]
        /\ \E i \in DOMAIN l : l[i][1] = "a"}

\* The buffer imports the modules of l; the files a, a/b and a/b/e exist
\* beside it.
PartialWorlds ==
    {MkWorld("partial",
             <<Blob(Str("a"), Append(DirT, Str("a"))),              \* 5
               Blob(Str("b"), DirT \o <<Str("a"), Str("b")>>),      \* 6
               Blob(Str("e"), DirT \o <<Str("a"), Str("b"), Str("e")>>)>>
                 \o [i \in DOMAIN l |-> Import(1, l[i], <<>>, <<>>)],
             {[dir |-> DirT, mod |-> Str("a"), blob |-> 5],
              [dir |-> DirT, mod |-> <<"a", "/", "b">>, blob |-> 6],
              [dir |-> DirT, mod |-> <<"a", "/", "b", "/", "e">>, blob |-> 7]},
             {}) :
        l \in PartialImportLists}

PartialQueries ==
    {[expr |-> e, path |-> <<>>, defn |-> d, type |-> "object-members"] :
        e \in {<<"a", ".", "b", ".", "x">>, <<"a", ".", "x">>,
               <<"a", ".", "b", ".", "e", ".", "x">>},
        d \in BOOLEAN}

\* _hit_from_elem_imports(tokens, <the buffer>) has been entered.
InitPartial ==
    /\ world \in PartialWorlds
    /\ query \in PartialQueries
    /\ phase = "resolving"
    /\ out = Call(ImportsFrame(_tokenize_citdl_expr(query.expr), Raw(world.buf),
                               query.defn), NewSt)
    /\ ctl = 0 /\ trg = 0 /\ scan = 0

NextPartial == ResolverStep

SpecPartial == InitPartial /\ [][NextPartial]_vars

\* The number of leading tokens that s and t share.
RECURSIVE SharedPrefix(_, _)
SharedPrefix(s, t) ==
    IF s = <<>> \/ t = <<>> \/ s[1] # t[1] THEN 0
    ELSE 1 + SharedPrefix(Tail(s), Tail(t))

\* The longest prefix the tokens share with the module of an import of the
\* buffer.
LongestShared(w, tokens) ==
    LET lens == {SharedPrefix(Split(w.el[i].module, "/"), tokens) :
                    i \in {i \in DOMAIN w.el :
                              w.el[i].tag = "import" /\ w.el[i].parent = w.buf}}
    IN  CHOOSE n \in lens : \A m \in lens : m <= n

\* C20: with several multi-segment imports that share the first token and
\* none that matches the tokens exactly, the hit is the blob of the module
\* named by the longest prefix the tokens share with an import, and that
\* many tokens are consumed, in whatever order the imports are declared.
C20_LongestPartialPrefix ==
    (phase = "resolving" /\ Halted(out)) =>
        \E n \in {LongestShared(world, _tokenize_citdl_expr(query.expr))} :
            /\ out.exc = ""
            /\ out.ret.n = n
            /\ out.ret.hit.elem = Raw(4 + n)

-----------------------------------------------------------------------------
(* C21: iterating an ECMAScriptImportLibGenerator.  The generator is       *)
(* query.gen; its field index and what the iteration has shown so far are  *)
(* in out: the values next() returned (StopIteration for the exception),   *)
(* the directories exists() was asked about, and the values of the pass    *)
(* before the last __iter__.                                               *)

MaxDepth == 7
MaxNexts == 5
MaxPasses == 2

StopIteration == [name |-> "StopIteration", dirs |-> <<>>]

\* The directory names d, dd, ddd, ... of a path MaxDepth deep.
DeepDir == [i \in 1..MaxDepth |-> [j \in 1..i |-> "d"]]

\* The directories the loop of __next__ asks exists() about, in order.
RECURSIVE Probed(_, _, _, _)
Probed(w, lookuppath, import_name, parent_dirs_left) ==
    IF parent_dirs_left > 0
    THEN <<lookuppath>> \o
         (IF Append(lookuppath, import_name) \in w.inits
          THEN <<>>
          ELSE Probed(w, dirname(lookuppath), import_name,
                      parent_dirs_left - 1))
    ELSE <<>>

\* import_name of __next__
GenImportName(g) == Split(g.imp_prefix[1], "/")[1]

\* __next__ that leaves index alone once the given libs are used up.
NextKeepsIndex(w, g, index) ==
    IF index < Len(g.libs)
    THEN [ret |-> g.libs[index + 1], index |-> index + 1, probed |-> <<>>]
    ELSE \* index = Len(g.libs)
         LET found == ProbeParents(w, dirname(g.bufpath), GenImportName(g),
                                   ParentDirsToProbe)
         IN  [ret |-> IF found = <<>> THEN StopIteration ELSE found[1],
              index |-> index,
              probed |-> Probed(w, dirname(g.bufpath), GenImportName(g),
                                ParentDirsToProbe)]

\* ECMAScriptImportLibGenerator.__next__: the value returned, the index
\* left behind and the exists() calls made.
__next__(w, g, index) ==
    IF index < Len(g.libs)
    THEN [ret |-> g.libs[index + 1], index |-> index + 1, probed |-> <<>>]
    ELSE IF index = Len(g.libs)
    THEN LET found == ProbeParents(w, dirname(g.bufpath), GenImportName(g),
                                   ParentDirsToProbe)
         IN  [ret |-> IF found = <<>> THEN StopIteration ELSE found[1],
              index |-> index + 1,
              probed |-> Probed(w, dirname(g.bufpath), GenImportName(g),
                                ParentDirsToProbe)]
    ELSE [ret |-> StopIteration, index |-> index, probed |-> <<>>]

\* ECMAScriptImportLibGenerator.__iter__
__iter__(index) == 0

GivenLibs ==
    {<<>>, <<Lib("curdirlib", DirT)>>,
     <<Lib("curdirlib", DirT), Lib("stdlib", DirS)>>,
     <<Lib("stdlib", DirS), Lib("curdirlib", DirT)>>}

GenPrefixes == {<<Str("p")>>, <<<<"p", "/", "q">>, Str("r")>>}

\* The buffer at every depth, the package p in at most one directory above
\* it or in none.
GenWorlds ==
    {[MkWorld("libgen", <<>>, {}, inits) EXCEPT
         !.bufpath = SubSeq(DeepDir, 1, k) \o <<Str("f")>>] :
        k \in 0..MaxDepth,
        inits \in {{}} \cup {{SubSeq(DeepDir, 1, d) \o <<Str("p")>>} :
                                d \in 0..MaxDepth}}

\* The generator as _add_parentdirlib builds it, from the plain libs or
\* from a generator made for an earlier import.
GenQueries(w) ==
    {[gen |-> _add_parentdirlib(w, l, p)] :
        p \in GenPrefixes,
        l \in {PlainLibs(s) : s \in GivenLibs} \cup
              {ECMAScriptImportLibGenerator(w.bufpath, <<Str("o")>>, s) :
                  s \in GivenLibs}}

InitLibGen ==
    /\ world \in GenWorlds
    /\ query \in GenQueries(world)
    /\ phase = "iterating"
    /\ out = [index |-> 0, yielded |-> <<>>, probed |-> <<>>,
              before |-> <<>>, pass |-> 1]
    /\ ctl = 0 /\ trg = 0 /\ scan = 0

GenNext ==
    /\ phase = "iterating"
    /\ Len(out.yielded) < MaxNexts
    /\ \E r \in {__next__(world, query.gen, out.index)} :
           out' = [out EXCEPT !.index = r.index,
                              !.yielded = Append(@, r.ret),
                              !.probed = @ \o r.probed]
    /\ UNCHANGED <<world, query, phase, ctl, trg, scan>>

GenIter ==
    /\ phase = "iterating"
    /\ out.pass < MaxPasses
    /\ out' = [out EXCEPT !.index = __iter__(out.index),
                          !.before = out.yielded,
                          !.yielded = <<>>, !.probed = <<>>,
                          !.pass = @ + 1]
    /\ UNCHANGED <<world, query, phase, ctl, trg, scan>>

NextLibGen == GenNext \/ GenIter

SpecLibGen == InitLibGen /\ [][NextLibGen]_vars

\* The j-th directory above the importing file ("/" is its own parent).
Ancestor(path, j) ==
    IF Len(path) > j THEN SubSeq(path, 1, Len(path) - j) ELSE <<>>

HoldsPackage(w, dir, g) ==
    Append(dir, Split(g.imp_prefix[1], "/")[1]) \in w.inits

\* C21: next() returns the given libraries in their order and asks about
\* no directory until they are used up; the call after them asks about at
\* most 5 directories above the importing file, nearest first, stops at
\* the first that holds the import name and returns one library for it;
\* every later call raises StopIteration; after __iter__ the same values
\* come again.
C21_LibsThenNearestAncestor ==
    phase = "iterating" =>
        LET g == query.gen
            n == Len(g.libs)
            y == out.yielded
            p == out.probed
        IN  /\ \A i \in 1..Len(y) : i <= n => y[i] = g.libs[i]
            /\ Len(y) <= n => p = <<>>
            /\ Len(y) > n =>
                 /\ Len(p) \in 1..5
                 /\ \A j \in 1..Len(p) : p[j] = Ancestor(g.bufpath, j)
                 /\ \A j \in 1..(Len(p) - 1) : ~HoldsPackage(world, p[j], g)
                 /\ IF HoldsPackage(world, p[Len(p)], g)
                    THEN y[n + 1] = [name |-> "parentdirlib",
                                     dirs |-> <<p[Len(p)]>>]
                    ELSE Len(p) = 5 /\ y[n + 1] = StopIteration
            /\ \A i \in (n + 2)..Len(y) : y[i] = StopIteration
            /\ \A i \in 1..Len(y) :
                   i <= Len(out.before) => y[i] = out.before[i]

\* The second pass has gone past the library of an ancestor directory.
C21_Witness ==
    /\ phase = "iterating"
    /\ out.pass = 2
    /\ Len(query.gen.libs) = 2
    /\ Len(out.yielded) = 4
    /\ Len(out.before) = 4
    /\ out.yielded[3].name = "parentdirlib"
    /\ Len(out.probed) = 3

-----------------------------------------------------------------------------
(* C22: the recursion check on symbol trees without a cycle.  The buffer   *)
(* holds z and the functions g, gg, ... nested in one another; the         *)
(* innermost holds a class C whose bases b, bb, ... are variables of the   *)
(* type N, declared next to it.                                            *)

GName(i) == [j \in 1..i |-> "g"]
BName(i) == [j \in 1..i |-> "b"]

\* d nested functions, k bases of C.
SentinelShapes ==
    {[d |-> 98, k |-> 0], [d |-> 99, k |-> 0],
     [d |-> 8, k |-> 9], [d |-> 8, k |-> 10]}

SentinelWorlds ==
    {MkWorld("sentinel",
             <<Variable(Str("z"), 1, <<>>)>>
             \o [i \in 1..s.d |->
                    Scope("function", GName(i), IF i = 1 THEN 1 ELSE 4 + i)]
             \o <<[Scope("class", Str("C"), 5 + s.d) EXCEPT
                      !.refs = [i \in 1..s.k |-> BName(i)]]>>
             \o [i \in 1..s.k |-> Variable(BName(i), 5 + s.d, Str("N"))],
             {}, {}) :
        s \in SentinelShapes}

\* The innermost function of a world.
Innermost(w) ==
    [i \in 1..Cardinality({e \in DOMAIN w.el : w.el[e].ilk = "function"}) |->
        GName(i)]

SentinelQueries(w) ==
    {[expr |-> e, path |-> Innermost(w), defn |-> d,
      type |-> "object-members"] :
        e \in {Str("z"), <<"C", ".", "m">>, Str("N")},
        d \in BOOLEAN}

InitSentinel ==
    /\ world \in SentinelWorlds
    /\ query \in SentinelQueries(world)
    /\ phase = "resolving"
    /\ out = Call(CitdlFrame(query.expr, get_start_scoperef(world, query),
                             0, query.defn), NewSt)
    /\ ctl = 0 /\ trg = 0 /\ scan = 0

NextSentinel == ResolverStep

SpecSentinel == InitSentinel /\ [][NextSentinel]_vars

-----------------------------------------------------------------------------
(* C23: a call-token applied to a class, an interface or an object.  K     *)
(* (element 5) holds a static method s, its constructor, an instance       *)
(* variable i, a plain method p, a hidden variable h and a member m with   *)
(* any of the three attributes; its base B holds a static method t and an  *)
(* instance variable j; v is a variable of the type K.                     *)

CalleeIlks == {"class", "interface", "object"}

MemberFlags == {"__staticmethod__", "__ctor__", "__instancevar__"}

Flagged(e, flags) == [e EXCEPT !.attrs = flags]

InstanceWorlds ==
    {MkWorld("instance",
             <<[Scope(ilk, Str("K"), 1) EXCEPT !.refs = refs],
               Flagged(Scope("function", Str("s"), 5), {"__staticmethod__"}),
               Flagged(Scope("function", Str("K"), 5), {"__ctor__"}),
               Flagged(Variable(Str("i"), 5, <<>>), {"__instancevar__"}),
               Scope("function", Str("p"), 5),
               Flagged(Variable(Str("h"), 5, <<>>), {"__hidden__"}),
               Flagged(Variable(Str("m"), 5, <<>>), flags),
               Scope("class", Str("B"), 1),
               Flagged(Scope("function", Str("t"), 12), {"__staticmethod__"}),
               Flagged(Variable(Str("j"), 12, <<>>), {"__instancevar__"}),
               Variable(Str("v"), 1, Str("K"))>>,
             {}, {}) :
        ilk \in CalleeIlks,
        refs \in {<<>>, <<Str("B")>>},
        flags \in SUBSET MemberFlags}

InstanceQueries ==
    {[expr |-> e, path |-> <<>>, defn |-> d, type |-> "object-members"] :
        e \in {<<"K", "(", ")">>, <<"v", "(", ")">>, <<"K", "(", "i", ")">>},
        d \in BOOLEAN}

\* eval_defns (the hit) or eval_cplns (its members) has been entered.
InitInstance ==
    /\ world \in InstanceWorlds
    /\ query \in InstanceQueries
    /\ phase = "resolving"
    /\ out = Call(EvalFrame(IF query.defn THEN "eval_defns" ELSE "eval_cplns",
                            query.type, query.expr,
                            get_start_scoperef(world, query), query.defn),
                  NewSt)
    /\ ctl = 0 /\ trg = 0 /\ scan = 0

NextInstance == ResolverStep

SpecInstance == InitInstance /\ [][NextInstance]_vars

\* The members of K and of its base that an instance shows.
InstanceMembers(w) ==
    {Member(KindOf(w, id), w.el[id].name) :
        id \in {id \in DOMAIN w.el :
                  /\ \/ w.el[id].parent = 5
                     \/ w.el[id].parent = 12 /\ w.el[5].refs # <<>>
                  /\ w.el[id].attrs \cap
                         {"__hidden__", "__staticmethod__", "__ctor__"} = {}}}

\* The request ended with the instance view of K, or with its members.
InstanceOfK ==
    /\ out.exc = ""
    /\ query.defn =>
         /\ out.ret.hit.elem = ClassInstance(Raw(5))
         /\ Ilk(world, out.ret.hit.elem) = "instance"
         /\ Name(world, out.ret.hit.elem) = Str("K")
         /\ NamesOf(world, out.ret.hit.elem.id) = NamesOf(world, 5)
    /\ ~query.defn => out.ret.members = InstanceMembers(world)

\* C23 as stated: for a callee of ilk class, interface or object the call
\* yields the instance view.
C23_AsStated ==
    (phase = "resolving" /\ Halted(out)) => InstanceOfK

\* C23: for a callee of ilk class the call does not fail and yields the
\* instance view of the class: same element, ilk "instance", and a member
\* list without the static, constructor and hidden members of the class
\* and of its bases, with their instance members; for a callee of ilk
\* interface or object the call fails with CodeIntelError.
C23_CallOfClassYieldsInstance ==
    (phase = "resolving" /\ Halted(out)) =>
        IF world.el[5].ilk = "class"
        THEN InstanceOfK
        ELSE out.exc = "CodeIntelError"

C23_Witness ==
    /\ phase = "resolving"
    /\ Halted(out)
    /\ world.el[5].ilk = "class"
    /\ world.el[5].refs # <<>>
    /\ ~query.defn
    /\ query.expr = <<"v", "(", ")">>
    /\ Member("variable", Str("i")) \in out.ret.members
    /\ Member("variable", Str("j")) \in out.ret.members
    /\ Member("function", Str("s")) \notin out.ret.members

-----------------------------------------------------------------------------
(* C24: the return type of a function.  The scanner counts the type of     *)
(* every return statement of the function h in an OrderedDict (a sequence  *)
(* of [citdl, count] in the order of first insertion), cix_function picks  *)
(* the `returns` attribute from it, and _hit_from_call resolves h() with   *)
(* it.  query.stmts holds the types of the return statements of h.         *)

MaxReturns == 4

ReturnTypes == {Str("N"), Str("O"), Str("C")}

ReturnStmts == UNION {[1..n -> ReturnTypes] : n \in 0..MaxReturns}

\* t[citdl] = t.get(citdl, 0) + 1
CountReturn(t, citdl) ==
    IF \E i \in DOMAIN t : t[i].citdl = citdl
    THEN [i \in DOMAIN t |->
             IF t[i].citdl = citdl
             THEN [t[i] EXCEPT !.count = @ + 1] ELSE t[i]]
    ELSE Append(t, [citdl |-> citdl, count |-> 1])

\* The loop of cix_function over node["returns"].items(): best_citdl.
RECURSIVE BestCitdl(_, _, _)
BestCitdl(items, best_citdl, max_count) ==
    IF items = <<>> THEN best_citdl
    ELSE BestCitdl(Tail(items),
                   IF items[1].count > max_count
                   THEN items[1].citdl ELSE best_citdl,
                   max_count)

\* cix_function: the returns attribute emitted, <<>> for None.
cix_function(returns) == BestCitdl(returns, <<>>, 0)

ReturnsWorld ==
    MkWorld("returns",
            <<Scope("class", Str("C"), 1), Scope("function", Str("h"), 1)>>,
            {}, {})

InitReturns ==
    /\ world = ReturnsWorld
    /\ query \in {[stmts |-> s, expr |-> <<"h", "(", ")">>, path |-> <<>>,
                   defn |-> FALSE, type |-> "object-members"] :
                     s \in ReturnStmts}
    /\ phase = "scanning"
    /\ out = [returns |-> <<>>, left |-> query.stmts, first |-> NoOutcome]
    /\ ctl = 0 /\ trg = 0 /\ scan = 0

\* visit_ReturnStatement for the next return statement of h
VisitReturn ==
    /\ phase = "scanning"
    /\ out.left # <<>>
    /\ out' = [out EXCEPT !.returns = CountReturn(@, out.left[1]),
                          !.left = Tail(@)]
    /\ UNCHANGED <<world, query, phase, ctl, trg, scan>>

\* cix_function(node) once the body of h has been visited
CixFunction ==
    /\ phase = "scanning"
    /\ out.left = <<>>
    /\ world' = [world EXCEPT !.el[6].returns = cix_function(out.returns)]
    /\ phase' = "emitted"
    /\ UNCHANGED <<query, out, ctl, trg, scan>>

\* _hit_from_citdl("h()") on the tree that was emitted
CallInference ==
    /\ phase = "emitted"
    /\ \E c \in {Finish(world, CitdlFrame(query.expr,
                                           get_start_scoperef(world, query),
                                           0, query.defn), NewSt)} :
          out' = [out EXCEPT !.first = Outcome(c)]
    /\ phase' = "called"
    /\ UNCHANGED <<world, query, ctl, trg, scan>>

NextReturns == VisitReturn \/ CixFunction \/ CallInference

SpecReturns == InitReturns /\ [][NextReturns]_vars

\* citdl is an entry of the histogram with a count that no entry exceeds.
HighestCount(returns, citdl) ==
    \E i \in DOMAIN returns :
        /\ returns[i].citdl = citdl
        /\ \A j \in DOMAIN returns : returns[j].count <= returns[i].count

\* C24: for a function with at least one counted return type, the returns
\* attribute that is emitted, and that h() is resolved with, is a type
\* whose count is the highest of the histogram.
C24_ReturnsHasHighestCount ==
    (phase \in {"emitted", "called"} /\ out.returns # <<>>) =>
        /\ HighestCount(out.returns, world.el[6].returns)
        /\ phase = "called" =>
             /\ out.first.exc = ""
             /\ HighestCount(out.returns,
                             Name(world, out.first.hit.elem))

-----------------------------------------------------------------------------
(* C25: the first token.  The buffer f holds the function g, g the class   *)
(* K, K the method m.  Each of m, K, g and f declares a variable that is   *)
(* named x or y, and each of g and f imports x or y from the module k,     *)
(* which holds a class x.  In some worlds f carries a citdl of its own,    *)
(* the name of its function g.                                             *)

DeclSites == {"m", "K", "g", "f"}
ImportSites == {"g", "f"}

XorY(b) == IF b THEN Str("x") ELSE Str("y")

PlainFirstWorlds ==
    {MkWorld("first",
             <<Scope("function", Str("g"), 1),
               Scope("class", Str("K"), 5),
               Scope("function", Str("m"), 6),
               Variable(XorY(decl["m"]), 7, Str("x")),
               Variable(XorY(decl["K"]), 6, Str("x")),
               Variable(XorY(decl["g"]), 5, Str("x")),
               Variable(XorY(decl["f"]), 1, Str("x")),
               Blob(Str("k"), Append(DirT, Str("k"))),
               Scope("class", Str("x"), 12),
               Import(5, Str("k"), XorY(imp["g"]), <<>>),
               Import(1, Str("k"), XorY(imp["f"]), <<>>)>>,
             {[dir |-> DirT, mod |-> Str("k"), blob |-> 12]}, {}) :
        decl \in [DeclSites -> BOOLEAN], imp \in [ImportSites -> BOOLEAN]}

\* f with the citdl g, where f alone may declare or import x.
CitdlFirstWorlds ==
    {[w EXCEPT !.el[1].citdl = Str("g")] :
        w \in {w \in PlainFirstWorlds :
                  /\ \A i \in 8..10 : w.el[i].name = Str("y")
                  /\ w.el[14].symbol = Str("y")}}

FirstWorlds == PlainFirstWorlds \cup CitdlFirstWorlds

FirstPaths == {<<>>, <<Str("g")>>, <<Str("g"), Str("K")>>,
               <<Str("g"), Str("K"), Str("m")>>}

\* A request names a token at a scope; or the citdl of the variable x of a
\* scope is being resolved, from the scope x was found in.
FirstQueries(w) ==
    {[tokens |-> t, path |-> p, variable |-> 0, defn |-> d] :
        t \in {<<Str("x")>>, <<Str("x"), Str("y")>>, <<Str("N")>>,
               <<Str("z")>>, <<Str("f")>>},
        p \in FirstPaths, d \in BOOLEAN}
    \cup
    {[tokens |-> _tokenize_citdl_expr(w.el[v].citdl),
      path |-> CHOOSE p \in FirstPaths :
                   ElemWalk(w, w.buf, p) = w.el[v].parent,
      variable |-> v, defn |-> d] :
        d \in BOOLEAN, v \in {v \in 8..11 : w.el[v].name = Str("x")}}

InitFirst ==
    /\ world \in FirstWorlds
    /\ query \in FirstQueries(world)
    /\ phase = "resolving"
    /\ out = Call(FirstPartFrame(query.tokens, Sref(world.buf, query.path),
                                 query.variable, query.defn), NewSt)
    /\ ctl = 0 /\ trg = 0 /\ scan = 0

NextFirst == ResolverStep

SpecFirst == InitFirst /\ [][NextFirst]_vars

\* What one scope offers for the token: a declaration of its names map
\* other than the variable being resolved, else what it imports under the
\* name, else the blob itself when the token is the blob's name.
FoundAt(w, sref, token, variable) ==
    LET e == _elem_from_scoperef(w, sref)
    IN  IF InNames(w, e, token) /\ NamesGet(w, e, token) # variable
        THEN Hit(Raw(NamesGet(w, e, token)), sref)
        ELSE IF \E i \in DOMAIN w.el :
                    /\ w.el[i].tag = "import" /\ w.el[i].parent = e
                    /\ w.el[i].symbol = token
        THEN Hit(Raw(13), Sref(12, <<Str("k")>>))
        ELSE IF w.el[e].ilk = "blob" /\ w.el[e].name = token
        THEN Hit(Raw(e), sref)
        ELSE NoHit

\* The innermost scope of the parent chain of sref that offers the token.
RECURSIVE InnermostFound(_, _, _, _)
InnermostFound(w, sref, token, variable) ==
    IF sref = NoSref THEN NoHit
    ELSE IF FoundAt(w, sref, token, variable) # NoHit
    THEN FoundAt(w, sref, token, variable)
    ELSE InnermostFound(
             w, parent_scoperef_from_scoperef(
                    w, built_in_blob(w, NewSt), sref).sref,
             token, variable)

\* C25: when a scope of the parent chain offers the token,
\* _hit_from_first_part returns what the innermost such scope offers, a
\* name of the scope before an import of the scope, with one token
\* consumed; and it never returns the variable whose citdl is being
\* resolved.
C25_InnermostDeclaration ==
    (phase = "resolving" /\ Halted(out)) =>
        /\ \E h \in {InnermostFound(world, Sref(world.buf, query.path),
                                     query.tokens[1], query.variable)} :
               h # NoHit => /\ out.exc = ""
                            /\ out.ret.hit = h
                            /\ out.ret.n = 1
        /\ query.variable # 0 =>
               ~(out.exc = "" /\ out.ret.hit.elem.id = query.variable)

-----------------------------------------------------------------------------
(* C27: the fallback of _hit_from_first_part through the citdl of the      *)
(* start element.  The buffer f (with a citdl of its own, as a file that   *)
(* re-exports a type) holds the function g and imports X from the module   *)
(* k; k holds q and the variable exports, which holds the class X.         *)

FallbackWorlds ==
    {[MkWorld("fallback",
              <<Scope("function", Str("g"), 1),
                Blob(Str("k"), Append(DirT, Str("k"))),
                Variable(Str("exports"), 6, ce),
                Scope("class", Str("X"), 7),
                Scope("class", Str("q"), 6),
                Import(1, Str("k"), Str("X"), <<>>)>>,
              {[dir |-> DirT, mod |-> Str("k"), blob |-> 6]}, {})
         EXCEPT !.el[1].citdl = cf] :
        cf \in {<<>>, Str("g"), Str("X"), Str("N")},
        ce \in {<<>>, Str("N")}}

FallbackQueries ==
    {[tokens |-> <<t>>, path |-> p, variable |-> 0, defn |-> d] :
        t \in {Str("q"), Str("z"), Str("N")},
        p \in {<<>>, <<Str("g")>>},
        d \in BOOLEAN}

InitFallback ==
    /\ world \in FallbackWorlds
    /\ query \in FallbackQueries
    /\ phase = "resolving"
    /\ out = Call(FirstPartFrame(query.tokens, Sref(world.buf, query.path),
                                 query.variable, query.defn), NewSt)
    /\ ctl = 0 /\ trg = 0 /\ scan = 0

NextFallback == ResolverStep

SpecFallback == InitFallback /\ [][NextFallback]_vars

\* Frame i of the stack is a call of _hit_from_first_part that has taken
\* the fallback: it resolves its citdl or waits for its retry.
InFallback(c, i) ==
    /\ c.stk[i].fn = "_hit_from_first_part"
    /\ c.stk[i].pc \in {"fallback", "retry"}

\* C27: the call that _hit_from_first_part makes to retry from the scope
\* its citdl resolved to never takes the citdl fallback itself.
C27_FallbackAtMostOnce ==
    phase = "resolving" =>
        \A i \in 1..(Len(out.stk) - 1) :
            (InFallback(out, i) /\ out.stk[i].pc = "retry")
                => ~InFallback(out, i + 1)

-----------------------------------------------------------------------------
(* The parent chain of nested scopes                                       *)
(*                                                                         *)
(* The buffer f holds four scopes a, b, c and d, each nested in the one    *)
(* before, and each a function, a class or an object.  A request starts at *)
(* one of them and asks for the parent again and again until the parent of *)
(* the built-in blob, None, ends the walk.                                 *)

ParentIlks == {"function", "class", "object"}

ParentNames == <<Str("a"), Str("b"), Str("c"), Str("d")>>

ParentWorlds ==
    {MkWorld("parent",
             [i \in 1..Len(ParentNames) |->
                 Scope(ilk[i], ParentNames[i], IF i = 1 THEN 1 ELSE i + 3)],
             {}, {}) :
        ilk \in [1..Len(ParentNames) -> ParentIlks]}

ParentQueries ==
    {[path |-> SubSeq(ParentNames, 1, n)] :
        n \in 1..Len(ParentNames)}

InitParent ==
    /\ world \in ParentWorlds
    /\ query \in ParentQueries
    /\ phase = "walking"
    /\ out = [ok |-> TRUE, sref |-> Sref(world.buf, query.path),
              st |-> NewSt, from |-> NoSref]
    /\ ctl = 0 /\ trg = 0 /\ scan = 0

\* One call of parent_scoperef_from_scoperef on the scoperef the call
\* before it returned.
ParentOf ==
    /\ phase = "walking"
    /\ out.ok /\ out.sref # NoSref
    /\ \E r \in {parent_scoperef_from_scoperef(world, out.st, out.sref)} :
          out' = [ok |-> r.ok, sref |-> r.sref, st |-> r.st,
                  from |-> out.sref]
    /\ UNCHANGED <<world, query, phase, ctl, trg, scan>>

NextParent == ParentOf

SpecParent == InitParent /\ [][NextParent]_vars

\* C26: for a scoperef with a non-empty path, parent_scoperef_from_scoperef
\* returns a scoperef whose element is not of ilk class or instance, also
\* when classes are nested in classes.
C26_ParentIsNeverClass ==
    (phase = "walking" /\ out.from # NoSref /\ out.from.path # <<>>) =>
        /\ out.ok
        /\ world.el[_elem_from_scoperef(world, out.sref)].ilk
               \notin {"class", "instance"}

-----------------------------------------------------------------------------
(* Attribute access on a function                                          *)
(*                                                                         *)
(* The buffer f holds a class K with one variable and a function g with an *)
(* argument, a local variable, a nested function h and a nested class c.   *)
(* g may carry the citdl K.  A request is _hit_from_getattr on g.          *)

AttrWorlds ==
    {MkWorld("attr",
             <<[Scope("function", Str("g"), 1) EXCEPT !.citdl = cg],   \* 5
               Scope("class", Str("K"), 1),                            \* 6
               Variable(km, 6, Str("N")),                              \* 7
               [Variable(an, 5, Str("N")) EXCEPT !.ilk = "argument"],  \* 8
               Variable(vn, 5, Str("O")),                              \* 9
               Scope("function", Str("h"), 5),                         \* 10
               Scope("class", Str("c"), 5)>>,                          \* 11
             {}, {}) :
        cg \in {<<>>, Str("K")}, km \in {Str("a"), Str("z")},
        an \in {Str("a"), Str("b")}, vn \in {Str("v"), Str("w")}}

AttrQueries ==
    {[tokens |-> <<t>> \o rest, defn |-> d] :
        t \in {Str("a"), Str("b"), Str("v"), Str("w"), Str("h"), Str("c"),
               Str("z")},
        rest \in {<<>>, <<Str("y")>>}, d \in BOOLEAN}

InitAttr ==
    /\ world \in AttrWorlds
    /\ query \in AttrQueries
    /\ phase = "resolving"
    /\ out = Call(GetattrFrame(query.tokens, Raw(5), Sref(world.buf, <<>>),
                               query.defn), NewSt)
    /\ ctl = 0 /\ trg = 0 /\ scan = 0

NextAttr == ResolverStep

SpecAttr == InitAttr /\ [][NextAttr]_vars

\* The arguments and local variables of the function g.
Internal(w) ==
    {i \in DOMAIN w.el : w.el[i].parent = 5 /\ w.el[i].tag = "variable"}

\* C28: _hit_from_getattr on a function never resolves to an argument or a
\* local variable of the function: for a name declared inside the function
\* it fails, or it falls through to the citdl of the function.
C28_NoInternalNames ==
    (phase = "resolving" /\ Halted(out)) =>
        ~(out.exc = "" /\ out.ret.hit.elem.id \in Internal(world))

-----------------------------------------------------------------------------
(* What a scan reports and what it leaves in the cache                     *)
(*                                                                         *)
(* The library may have been used before: d1, or d1 and d2, may already   *)
(* be in _have_ensured_scanned_from_dir_cache, with the index a complete   *)
(* scan leaves.  query is what the cache held at the start.  out keeps, *)
(* for every caller, what the event reporter of the database was told      *)
(* (events), the directories its onScanStarted was given (dirs), and how   *)
(* each of its calls of ensure_dir_scanned came back (calls).  A file that *)
(* is loaded and scanned, and a path that is removed, may raise.           *)

NumCallers == 1

NoReport == [events |-> <<>>, dirs |-> {}, calls |-> <<>>]

onScanStarted(dirs) == [ev |-> "onScanStarted", dirs |-> dirs, scanned |-> {}]

onScanComplete(dirs, scanned) ==
    [ev |-> "onScanComplete", dirs |-> dirs, scanned |-> scanned]

\* The index a complete scan of dir leaves: the files that can be read.
ScannedIndex(s, dir) == Range(Importables(dir)) \ s.bad

UsedScan(n) ==
    {[s EXCEPT !.cache = prior,
               !.index = [d \in DOMAIN @ |->
                             IF d \in prior THEN ScannedIndex(s, d) ELSE @[d]]] :
        s \in NewScan(n), prior \in {{}, {"d1"}, {"d1", "d2"}}}

InitReport ==
    /\ phase = "scanning"
    /\ scan \in UsedScan(NumCallers)
    /\ query = scan.cache
    /\ out = [t \in 1..NumCallers |-> NoReport]
    /\ ctl = NewCtlr
    /\ world = 0 /\ trg = 0

\* How the step of frame f leaves ensure_dir_scanned, "" when it does not:
\* the cache holds the directory (line 79), the controller is found
\* aborted (lines 90-92 and 115-117), or line 130 is reached.
DirOutcome(s, f, k) ==
    CASE f.pc = "check" /\ f.dir \in s.cache -> "skipped"
      [] f.pc = "files" /\ f.values # <<>> /\ Polled(f, k) -> "aborted"
      [] f.pc = "removed" /\ f.removed # <<>> /\ Polled(f, k) -> "aborted"
      [] f.pc = "removed" /\ f.removed = <<>> -> "ended"
      [] OTHER -> ""

DirCall(dir, outcome) == [dir |-> dir, outcome |-> outcome]

\* The reporter is told that ensure_all_dirs_scanned starts on its
\* directories (lines 40-45) and, in the finally clause, that it has
\* stopped (lines 66-71).
Reported(rep, f, g, outcome) ==
    LET r1 == IF outcome = "" THEN rep
              ELSE [rep EXCEPT !.calls = Append(@, DirCall(f.dir, outcome))]
    IN  IF f.all /\ f.pc = "call" /\ g.pc = "loop"
        THEN [r1 EXCEPT !.dirs = Range(g.dirs),
                        !.events = Append(@, onScanStarted(Range(g.dirs)))]
        ELSE IF f.all /\ f.pc # "call" /\ g.pc = "end"
        THEN [r1 EXCEPT !.events = Append(@, onScanComplete(rep.dirs,
                                                             g.scanned))]
        ELSE r1

\* A caller takes its step in the library.
ReportedStep ==
    /\ phase = "scanning"
    /\ \E t \in DOMAIN scan.th :
        /\ scan.th[t].pc # "end"
        /\ \E r \in {ScanStep(scan, scan.th[t], ctl)} :
              /\ scan' = [r.s EXCEPT !.th[t] = r.f]
              /\ out' = [out EXCEPT ![t] =
                            Reported(@, scan.th[t], r.f,
                                     DirOutcome(scan, scan.th[t], ctl))]
    /\ UNCHANGED <<world, query, phase, ctl, trg>>

\* buf.scan_if_necessary (line 111) or lang_zone.remove_path (line 128)
\* raises: ensure_dir_scanned is left at once, and ensure_all_dirs_scanned
\* through its finally clause.
Raises(s, f, k) ==
    \/ /\ f.pc = "files" /\ f.values # <<>> /\ ~Polled(f, k)
       /\ Head(f.values) \notin f.res_index \cup s.bad
    \/ f.pc = "removed" /\ f.removed # <<>> /\ ~Polled(f, k)

ScanRaises ==
    /\ phase = "scanning"
    /\ \E t \in DOMAIN scan.th :
        /\ Raises(scan, scan.th[t], ctl)
        /\ \E g \in {[scan.th[t] EXCEPT !.pc = "end"]} :
              /\ scan' = [scan EXCEPT !.th[t] = g]
              /\ out' = [out EXCEPT ![t] =
                            Reported(@, scan.th[t], g, "raised")]
    /\ UNCHANGED <<world, query, phase, ctl, trg>>

NextReport == ReportedStep \/ ScanRaises \/ Abort

SpecReport == InitReport /\ [][NextReport]_vars

\* Caller t takes a step that leaves ensure_dir_scanned with this outcome.
Leaves(t, outcome) ==
    /\ scan'.th[t] # scan.th[t]
    /\ Len(out'[t].calls) = Len(out[t].calls) + 1
    /\ out'[t].calls[Len(out'[t].calls)].outcome = outcome

\* C29: a directory is in _have_ensured_scanned_from_dir_cache only if a
\* call of ensure_dir_scanned for it ran to its end; a call that returns
\* on abort or raises leaves the cache as it was, and a call for a
\* directory that is not in the cache goes through its files; a call for
\* a directory that is in the cache loads nothing, removes nothing and
\* returns.
C29_CacheHoldsCompletedScans ==
    [][/\ \A d \in scan'.cache \ query :
              \E t \in DOMAIN out' : \E i \in DOMAIN out'[t].calls :
                  out'[t].calls[i] = DirCall(d, "ended")
       /\ \A t \in DOMAIN scan.th :
              /\ (Leaves(t, "aborted") \/ Leaves(t, "raised")) =>
                     scan'.cache = scan.cache
              /\ (scan.th[t].pc = "check" /\ scan'.th[t] # scan.th[t]
                    /\ scan.th[t].dir \notin scan.cache) =>
                     scan'.th[t].pc = "files"
              /\ Leaves(t, "skipped") =>
                     /\ scan' = [scan EXCEPT !.th[t] = DirReturn(@)]]_vars

\* One caller of ensure_all_dirs_scanned has scanned d1 to its end and has
\* been aborted in d2: d1 is in the cache and d2 is not.
C29_Witness ==
    \E t \in DOMAIN out :
        /\ out[t].calls = <<DirCall("d1", "ended"), DirCall("d2", "aborted")>>
        /\ scan.cache = {"d1"}
        /\ query = {}

\* C30: every onScanStarted of ensure_all_dirs_scanned is followed by
\* exactly one onScanComplete for the same directories, also when the scan
\* is aborted or raises; every directory in the scanned set it passes has
\* been scanned to completion; and when every directory is in the cache
\* already, nothing is reported and nothing is scanned.
C30_ReportsPairedAndTrue ==
    /\ \A t \in DOMAIN out :
         LET e == out[t].events
         IN  /\ Len(e) <= 2
             /\ Len(e) >= 1 => e[1].ev = "onScanStarted"
             /\ Len(e) = 2 => /\ e[2].ev = "onScanComplete"
                              /\ e[2].dirs = e[1].dirs
             /\ scan.th[t].pc = "end" => Len(e) # 1
             /\ \A i \in DOMAIN e :
                    e[i].ev = "onScanComplete" => e[i].scanned \subseteq scan.cache
             /\ (Range(LibDirs) \subseteq query /\ scan.th[t].all) =>
                    e = <<>> /\ out[t].calls = <<>>
    /\ Range(LibDirs) \subseteq query =>
           /\ \A p \in ScanPaths : scan.loads[p] = 0 /\ scan.drops[p] = 0

====
